---- MODULE Spec2Model ----
(***************************************************************************)
(* Model of the Spotify Pomodoro player component                          *)
(* (src/unnamed/part_001, the SpotifyPomodoroPlayer React component).      *)
(*                                                                         *)
(* The component is single threaded and event driven.  One step of the     *)
(* model is one run-to-completion piece of the component: an event handler *)
(* or the continuation of an async function from one await to the next,    *)
(* followed by the re-render and the effects whose dependencies changed.   *)
(* Every pending await (a fetch in flight, a crypto digest, the one second *)
(* setTimeout after a play/pause command) is a record in the bag `tasks`.  *)
(***************************************************************************)
EXTENDS Integers, Sequences, FiniteSets, Bags, TLC

\* ---------------------------------------------------------------- constants

\* Absent value of a token, an id or a number (null / NaN / missing key).
Null == 0

MsPerSecond == 1000
RefreshMargin == 5000      \* getValidAccessToken: Date.now() < expiresAt - 5_000
MinRefreshDelay == 5000    \* Math.max(5_000, ...)
RefreshLead == 60000       \* newExpiresAt - Date.now() - 60_000
QuietWindow == 1000        \* setTimeout(..., 1000) after a play/pause command
PollPeriod == 5000         \* setInterval(..., 5000) of the playback poll
TickPeriod == 1000         \* setInterval(..., 1000) of the pomodoro timer
DefaultWorkMinutes == 25
DefaultBreakMinutes == 5
DefaultPomodoros == 4

\* ------------------------------------------------------------------- bounds

MaxClockSteps == 1     \* the clock advances at most this many steps
MaxTasks == 2          \* awaits pending at the same time
MaxTokenRequests == 2  \* requests the token endpoint receives in one run
MaxSessionRequests == 1  \* the same, in a run of SpecSession

\* Length of one clock step of the session specification, in milliseconds.
ClockStep == 5 * MsPerSecond

\* expires_in values (seconds) the token endpoint answers with.
ExpiresInChoices == {8, 70}

\* Verifiers generateCodeVerifier can draw.
Verifiers == {1, 2}

\* Outcome of a fetch that rejects (network failure): it has no HTTP status.
NetworkError == 0

\* A pomodoro session is followed for this many minutes.
MaxTimerMinutes == 30

\* How far the clock of a pomodoro session moves in one step (ms): a
\* default break or a default work phase.
TimerClockSteps == {DefaultBreakMinutes * 60 * MsPerSecond,
                    DefaultWorkMinutes * 60 * MsPerSecond}

\* Lifetime (seconds) of the credential of the user of a pomodoro session:
\* its refresh is not due within the session.
TimerSessionSeconds == 9000

\* An uninterrupted run of the timer is followed for this many minutes.
MaxResyncSeconds == 121   \* the clock of a resync run stops after this many seconds

MaxVerifierLength == 3   \* characters of a verifier of a challenge run
DigestLength == 5        \* bytes of the digest of a challenge run

MaxRunMinutes == 125

VARIABLES
  now,                 \* Date.now(), milliseconds
  page,                \* "app": the component is mounted; "away": the browser is at the authorization endpoint
  authRequest,         \* code_challenge of the authorization request the browser navigated to
  urlCode,             \* the `code` query parameter of window.location (Null: none)
  storage,             \* localStorage: access_token, refresh_token, expires_in, expires_at, code_verifier
  token, error, isLoading, userInfo, playbackState,          \* useState
  workMinutes, breakMinutes, totalPomodoros, currentPomodoro,
  isRunning, isWorking, timeLeft, timerComplete,             \* useState
  tickDue,             \* intervalRef: Null, or the time the one-second interval fires next
  endTimeRef, timeLeftRef, programmaticChangeRef, refreshTimeoutRef,   \* useRef
  refreshTimers,       \* armed window.setTimeout refresh timers: records [id, due]
  pollDue,             \* the playback poll interval: Null, or the time it fires next
  tasks,               \* bag of pending awaits
  tokenRequests,       \* requests the token endpoint has received
  ev,                  \* history: the name of the last step
  delivered,           \* history: the response the last step delivered
  gvtDone              \* history: the getValidAccessToken calls that returned in the last step

vars == << now, page, authRequest, urlCode, storage, token, error, isLoading, userInfo,
           playbackState, workMinutes, breakMinutes, totalPomodoros,
           currentPomodoro, isRunning, isWorking, timeLeft, timerComplete,
           tickDue, endTimeRef, timeLeftRef, programmaticChangeRef,
           refreshTimeoutRef, refreshTimers, pollDue, tasks, tokenRequests,
           ev, delivered, gvtDone >>

\* The state as one record, so that a handler is a function from state to
\* state and handlers, continuations and effects compose in program order.
Cur ==
  [ now |-> now, page |-> page, authRequest |-> authRequest,
    urlCode |-> urlCode, storage |-> storage,
    token |-> token, error |-> error, isLoading |-> isLoading,
    userInfo |-> userInfo, playbackState |-> playbackState,
    workMinutes |-> workMinutes, breakMinutes |-> breakMinutes,
    totalPomodoros |-> totalPomodoros, currentPomodoro |-> currentPomodoro,
    isRunning |-> isRunning, isWorking |-> isWorking, timeLeft |-> timeLeft,
    timerComplete |-> timerComplete, tickDue |-> tickDue,
    endTimeRef |-> endTimeRef, timeLeftRef |-> timeLeftRef,
    programmaticChangeRef |-> programmaticChangeRef,
    refreshTimeoutRef |-> refreshTimeoutRef, refreshTimers |-> refreshTimers,
    pollDue |-> pollDue, tasks |-> tasks, tokenRequests |-> tokenRequests,
    ev |-> ev, delivered |-> delivered, gvtDone |-> gvtDone ]

Becomes(s) ==
  /\ now' = s.now /\ page' = s.page /\ authRequest' = s.authRequest
  /\ urlCode' = s.urlCode
  /\ storage' = s.storage /\ token' = s.token /\ error' = s.error
  /\ isLoading' = s.isLoading /\ userInfo' = s.userInfo
  /\ playbackState' = s.playbackState /\ workMinutes' = s.workMinutes
  /\ breakMinutes' = s.breakMinutes /\ totalPomodoros' = s.totalPomodoros
  /\ currentPomodoro' = s.currentPomodoro /\ isRunning' = s.isRunning
  /\ isWorking' = s.isWorking /\ timeLeft' = s.timeLeft
  /\ timerComplete' = s.timerComplete /\ tickDue' = s.tickDue
  /\ endTimeRef' = s.endTimeRef /\ timeLeftRef' = s.timeLeftRef
  /\ programmaticChangeRef' = s.programmaticChangeRef
  /\ refreshTimeoutRef' = s.refreshTimeoutRef
  /\ refreshTimers' = s.refreshTimers /\ pollDue' = s.pollDue
  /\ tasks' = s.tasks /\ tokenRequests' = s.tokenRequests
  /\ ev' = s.ev /\ delivered' = s.delivered /\ gvtDone' = s.gvtDone

\* ------------------------------------------------------------------ helpers

Max(a, b) == IF a >= b THEN a ELSE b

\* JavaScript truthiness of a stored string or a parsed number: null, NaN
\* and 0 are falsy.
Truthy(x) == x # Null

\* localStorage holds strings.  The string of a number is the sequence of
\* its decimal digits; the component stores only numbers >= 0.  A key that
\* is missing reads as null, which is as falsy as the empty string.
NoString == << >>

\* String(n)
RECURSIVE NumberToString(_)
NumberToString(n) == IF n < 10 THEN << n >> ELSE Append(NumberToString(n \div 10), n % 10)

\* parseInt(str, 10) of a string of digits; of nothing it is NaN, which is
\* as falsy as 0.
RECURSIVE ParseDigits(_)
ParseDigits(str) ==
  IF str = << >> THEN 0
  ELSE 10 * ParseDigits(SubSeq(str, 1, Len(str) - 1)) + str[Len(str)]

\* expiresAtStr ? parseInt(expiresAtStr, 10) : null
ParseInt(str) == IF str = NoString THEN Null ELSE ParseDigits(str)

EmptyStorage ==
  [ access_token |-> Null, refresh_token |-> Null, expires_in |-> NoString,
    expires_at |-> NoString, code_verifier |-> Null ]

NoError == [what |-> "none", status |-> Null]

\* No response was delivered.  A delivered response is recorded with the
\* function that awaited it (fn), for a refresh the caller of
\* refreshAccessToken (ret), what the response carried, and of the request
\* it answers the history counters (reqs, refs) and what it carried (rt, code).
NoResponse ==
  [ fn |-> "none", ret |-> "none", ok |-> FALSE, status |-> Null,
    access_token |-> Null, refresh_token |-> Null, expires_in |-> Null,
    reqs |-> 0, refs |-> 0, rt |-> Null, code |-> Null ]
Failed(what, status) == [what |-> what, status |-> status]

\* base64url(SHA-256(verifier)): one challenge per verifier, never a verifier.
GenerateCodeChallenge(v) == v + Cardinality(Verifiers)

\* A pending await.
\*   op      the call the user or the environment started: "init", "timer",
\*           "poll", "play", "pause", "login"
\*   fn      what is awaited: "getToken", "refresh", "getUserInfo",
\*           "getPlaybackState", "put", "putRetry", "quiet", "digest"
\*   ret     for fn = "refresh": the caller that awaits refreshAccessToken
\*   arg     the access token the awaited request carries
\*   initTok the token init() hands to getUserInfo and getPlaybackState
\*   n       for a token request: its sequence number at the token endpoint
\*   rt      for a token request: the refresh token or verifier it carries
\*   code    for a code exchange: the code it carries
\*   due     for fn = "quiet": when the timeout fires
\*   reqs, refs   history: resource requests sent and refreshes invoked so
\*           far by the getUserInfo / getPlaybackState / handlePlay /
\*           handlePause invocation this await belongs to
\*   snap    history, for ret = "gvt": what getValidAccessToken read
NoSnap == [at |-> Null, tok |-> Null, exp |-> Null]
Task(op, fn) ==
  [ op |-> op, fn |-> fn, ret |-> "none", arg |-> Null, initTok |-> Null,
    n |-> Null, rt |-> Null, code |-> Null, due |-> Null, reqs |-> 0,
    refs |-> 0, snap |-> NoSnap ]

AddTask(s, t) == [s EXCEPT !.tasks = @ (+) SetToBag({t})]
RemoveTask(s, t) == [s EXCEPT !.tasks = @ (-) SetToBag({t})]

\* ------------------------------------------------------- proactive refresh

\* clearTimeout(refreshTimeoutRef.current); refreshTimeoutRef.current = null
ClearRefreshTimeout(s) ==
  IF Truthy(s.refreshTimeoutRef)
  THEN [s EXCEPT !.refreshTimers = {t \in @ : t.id # s.refreshTimeoutRef},
                 !.refreshTimeoutRef = Null]
  ELSE s

\* The id window.setTimeout returns: one that no armed timer has.
NewTimerId(s) ==
  CHOOSE i \in 1..(Cardinality(s.refreshTimers) + 1) :
    \A t \in s.refreshTimers : t.id # i

\* RefreshDelay without the five-second floor.
RefreshDelayNoFloor(expiresAt, t) == expiresAt - t - RefreshLead

RefreshDelay(expiresAt, t) == Max(MinRefreshDelay, expiresAt - t - RefreshLead)

\* ScheduleRefresh arming a timer without cancelling the one recorded.
ScheduleRefreshKeepingOld(s, expiresAt) ==
  LET id == NewTimerId(s)
  IN [s EXCEPT !.refreshTimers =
                  @ \cup {[id |-> id, due |-> s.now + RefreshDelay(expiresAt, s.now)]},
               !.refreshTimeoutRef = id]

\* "Schedule next refresh ~60s before expiry"
ScheduleRefresh(s, expiresAt) ==
  LET c == ClearRefreshTimeout(s)
      id == NewTimerId(c)
  IN [c EXCEPT !.refreshTimers =
                  @ \cup {[id |-> id, due |-> s.now + RefreshDelay(expiresAt, s.now)]},
               !.refreshTimeoutRef = id]

\* --------------------------------------------------------- resource client

\* response.ok
Ok(status) == status \in 200..299

\* fetch("https://api.spotify.com/v1/me", {Authorization: Bearer accessToken})
SendGetUserInfo(s, t, accessToken) ==
  AddTask(s, [t EXCEPT !.fn = "getUserInfo", !.ret = "none", !.arg = accessToken,
                       !.n = Null, !.rt = Null, !.reqs = @ + 1])

\* fetch("https://api.spotify.com/v1/me/player", {Authorization: Bearer accessToken})
SendGetPlaybackState(s, t, accessToken) ==
  AddTask(s, [t EXCEPT !.fn = "getPlaybackState", !.ret = "none",
                       !.arg = accessToken, !.n = Null, !.rt = Null,
                       !.reqs = @ + 1])

\* A call of getPlaybackState(accessToken), up to its first await.
GetPlaybackState(s, op, accessToken) ==
  SendGetPlaybackState(s, Task(op, "getPlaybackState"), accessToken)

\* A call of getUserInfo(accessToken) by init(), up to its first await.
GetUserInfo(s, accessToken) ==
  SendGetUserInfo(s, [Task("init", "getUserInfo") EXCEPT !.initTok = accessToken],
                  accessToken)

\* init(): "await getUserInfo(t); await getPlaybackState(t)": what follows
\* the return of getUserInfo.
AfterGetUserInfo(s, t) == GetPlaybackState(s, "init", t.initTok)

\* handlePlay / handlePause: the setTimeout(..., 1000) after the command.
ScheduleQuiet(s, t) ==
  AddTask(s, [t EXCEPT !.fn = "quiet", !.ret = "none", !.n = Null, !.rt = Null,
                       !.due = s.now + QuietWindow])

\* handlePlay / handlePause from "try {" to the first fetch.
SendCommand(s, t, validToken) ==
  AddTask([s EXCEPT !.programmaticChangeRef = TRUE],
          [t EXCEPT !.fn = "put", !.ret = "none", !.arg = validToken,
                    !.n = Null, !.rt = Null, !.reqs = 1, !.snap = NoSnap])

\* handlePlay / handlePause: "if (!validToken) return;" and what follows.
AfterGetValidAccessToken(s, t, validToken) ==
  IF Truthy(validToken) THEN SendCommand(s, t, validToken) ELSE s

LogGvt(s, snap, path, result) ==
  [s EXCEPT !.gvtDone = @ \cup {[snap |-> snap, path |-> path, result |-> result]}]

\* AfterRefresh with a getPlaybackState that reports the 401 before it
\* retries.
AfterRefreshReporting(s, t, ok) ==
  LET stored == s.storage.access_token IN
  CASE t.ret = "timer" -> s
    [] t.ret = "init" ->
         IF ok /\ Truthy(stored) THEN GetUserInfo(s, stored) ELSE s
    [] t.ret = "gvt" ->
         LET validToken == IF ok THEN stored ELSE Null
         IN AfterGetValidAccessToken(LogGvt(s, t.snap, "refresh", validToken),
                                     t, validToken)
    [] t.ret = "getUserInfo" ->
         IF ok
         THEN SendGetUserInfo(s, t, IF Truthy(stored) THEN stored ELSE t.arg)
         ELSE AfterGetUserInfo([s EXCEPT !.error = Failed("getUserInfo", 401)], t)
    [] t.ret = "getPlaybackState" ->
         LET e == [s EXCEPT !.error = Failed("getPlaybackState", 401)] IN
         IF ok
         THEN SendGetPlaybackState(e, t, IF Truthy(stored) THEN stored ELSE t.arg)
         ELSE e
    [] t.ret = "put" ->
         IF ok
         THEN AddTask(s, [t EXCEPT !.fn = "putRetry", !.ret = "none",
                                   !.arg = stored, !.n = Null, !.rt = Null,
                                   !.reqs = @ + 1])
         ELSE ScheduleQuiet(s, t)

\* What the caller that awaited refreshAccessToken() does with its result.
AfterRefresh(s, t, ok) ==
  LET stored == s.storage.access_token IN
  CASE t.ret = "timer" -> s
    [] t.ret = "init" ->
         IF ok /\ Truthy(stored) THEN GetUserInfo(s, stored) ELSE s
    [] t.ret = "gvt" ->
         LET validToken == IF ok THEN stored ELSE Null
         IN AfterGetValidAccessToken(LogGvt(s, t.snap, "refresh", validToken),
                                     t, validToken)
    [] t.ret = "getUserInfo" ->
         IF ok
         THEN SendGetUserInfo(s, t, IF Truthy(stored) THEN stored ELSE t.arg)
         ELSE AfterGetUserInfo([s EXCEPT !.error = Failed("getUserInfo", 401)], t)
    [] t.ret = "getPlaybackState" ->
         IF ok
         THEN SendGetPlaybackState(s, t, IF Truthy(stored) THEN stored ELSE t.arg)
         ELSE [s EXCEPT !.error = Failed("getPlaybackState", 401)]
    [] t.ret = "put" ->
         IF ok
         THEN AddTask(s, [t EXCEPT !.fn = "putRetry", !.ret = "none",
                                   !.arg = stored, !.n = Null, !.rt = Null,
                                   !.reqs = @ + 1])
         ELSE ScheduleQuiet(s, t)

\* refreshAccessToken() up to its await: no refresh token, no request.
RefreshAccessToken(s, t) ==
  LET existingRefresh == s.storage.refresh_token IN
  IF ~Truthy(existingRefresh)
  THEN AfterRefresh(s, t, FALSE)
  ELSE AddTask([s EXCEPT !.tokenRequests = @ + 1],
               [t EXCEPT !.fn = "refresh", !.n = s.tokenRequests + 1,
                         !.rt = existingRefresh])

\* PersistRefresh storing whatever refresh token the response carries, none
\* included.
PersistRefreshAsCarried(s, data) ==
  [s EXCEPT !.storage.access_token = data.access_token,
            !.storage.expires_in = NumberToString(data.expires_in),
            !.storage.expires_at = NumberToString(s.now + data.expires_in * MsPerSecond),
            !.storage.refresh_token = data.refresh_token,
            !.token = data.access_token]

\* refreshAccessToken(): "Persist tokens".
PersistRefresh(s, data) ==
  [s EXCEPT !.storage.access_token = data.access_token,
            !.storage.expires_in = NumberToString(data.expires_in),
            !.storage.expires_at = NumberToString(s.now + data.expires_in * MsPerSecond),
            !.storage.refresh_token =
               IF Truthy(data.refresh_token) THEN data.refresh_token ELSE @,
            !.token = data.access_token]

\* RefreshResponse dropping the session when the token endpoint refuses.
RefreshResponseDroppingSession(s, t, data) ==
  IF ~data.ok
  THEN AfterRefresh([s EXCEPT !.storage.access_token = Null,
                              !.storage.expires_at = NoString, !.token = Null],
                    t, FALSE)
  ELSE LET p == PersistRefresh(s, data)
       IN AfterRefresh(ScheduleRefresh(p, s.now + data.expires_in * MsPerSecond), t, TRUE)

\* refreshAccessToken() from the response of the token endpoint on.
RefreshResponse(s, t, data) ==
  IF ~data.ok
  THEN AfterRefresh(s, t, FALSE)
  ELSE LET p == PersistRefresh(s, data)
       IN AfterRefresh(ScheduleRefresh(p, s.now + data.expires_in * MsPerSecond), t, TRUE)

\* StoredTokenIsValid without the five-second margin.
StoredTokenIsValidNoMargin(s) ==
  LET currentToken == s.storage.access_token
      expiresAt == ParseInt(s.storage.expires_at)
  IN Truthy(currentToken) /\ Truthy(expiresAt) /\ s.now < expiresAt

\* getValidAccessToken(): the stored token is returned without a refresh.
StoredTokenIsValid(s) ==
  LET currentToken == s.storage.access_token
      expiresAt == ParseInt(s.storage.expires_at)
  IN Truthy(currentToken) /\ Truthy(expiresAt) /\ s.now < expiresAt - RefreshMargin

Snap(s) ==
  [at |-> s.now, tok |-> s.storage.access_token,
   exp |-> ParseInt(s.storage.expires_at)]

\* handlePlay() (cmd = "play") / handlePause() (cmd = "pause") up to the
\* first await that is pending: getValidAccessToken, then the command.
HandleCommand(s, cmd) ==
  LET t == Task(cmd, "put") IN
  IF StoredTokenIsValid(s)
  THEN AfterGetValidAccessToken(
         LogGvt(s, Snap(s), "stored", s.storage.access_token), t,
         s.storage.access_token)
  ELSE RefreshAccessToken(s, [t EXCEPT !.ret = "gvt", !.snap = Snap(s)])

\* getUserInfo / getPlaybackState / handlePlay / handlePause from the
\* response of the resource request on.
ResourceResponse(s, t, status) ==
  CASE t.fn = "getUserInfo" ->
         IF status = NetworkError
         THEN AfterGetUserInfo([s EXCEPT !.error = Failed("getUserInfo", status)], t)
         ELSE IF status = 401
         THEN RefreshAccessToken(s, [t EXCEPT !.ret = "getUserInfo", !.refs = @ + 1])
         ELSE IF ~Ok(status)
         THEN AfterGetUserInfo([s EXCEPT !.error = Failed("getUserInfo", status)], t)
         ELSE AfterGetUserInfo([s EXCEPT !.userInfo = "profile"], t)
    [] t.fn = "getPlaybackState" ->
         IF status = NetworkError
         THEN [s EXCEPT !.error = Failed("getPlaybackState", status)]
         ELSE IF status = 401
         THEN RefreshAccessToken(s, [t EXCEPT !.ret = "getPlaybackState", !.refs = @ + 1])
         ELSE IF status = 204
         THEN [s EXCEPT !.playbackState = "noDevice"]
         ELSE IF ~Ok(status)
         THEN [s EXCEPT !.error = Failed("getPlaybackState", status)]
         ELSE [s EXCEPT !.playbackState = "snapshot"]
    [] t.fn = "put" ->
         IF status = NetworkError
         THEN [s EXCEPT !.error = Failed(t.op, status), !.programmaticChangeRef = FALSE]
         ELSE IF status = 401
         THEN RefreshAccessToken(s, [t EXCEPT !.ret = "put", !.refs = @ + 1])
         ELSE ScheduleQuiet(s, t)
    [] t.fn = "putRetry" ->
         IF status = NetworkError
         THEN [s EXCEPT !.error = Failed(t.op, status), !.programmaticChangeRef = FALSE]
         ELSE ScheduleQuiet(s, t)

\* ---------------------------------------------------------- code exchange

\* GetToken without the check for the stored verifier.
GetTokenUnchecked(s, code) ==
  LET codeVerifier == s.storage.code_verifier IN
  AddTask([s EXCEPT !.isLoading = TRUE, !.tokenRequests = @ + 1],
          [Task("init", "getToken") EXCEPT !.n = s.tokenRequests + 1,
                                           !.rt = codeVerifier, !.code = code])

\* getToken(code) up to its await.
GetToken(s, code) ==
  LET codeVerifier == s.storage.code_verifier IN
  IF ~Truthy(codeVerifier)
  THEN [s EXCEPT !.error = Failed("getToken:noVerifier", Null), !.isLoading = FALSE]
  ELSE AddTask([s EXCEPT !.isLoading = TRUE, !.tokenRequests = @ + 1],
               [Task("init", "getToken") EXCEPT !.n = s.tokenRequests + 1,
                                                !.rt = codeVerifier, !.code = code])

\* GetTokenResponse storing the lifetime of the token as its expiry.
GetTokenResponseRelativeExpiry(s, t, data) ==
  IF ~data.ok
  THEN [s EXCEPT !.error = Failed("getToken", data.status), !.isLoading = FALSE]
  ELSE LET newExpiresAt == s.now + data.expires_in * MsPerSecond
           p == [s EXCEPT !.storage.access_token = data.access_token,
                          !.storage.refresh_token = data.refresh_token,
                          !.storage.expires_in = NumberToString(data.expires_in),
                          !.storage.expires_at =
                             NumberToString(data.expires_in * MsPerSecond),
                          !.token = data.access_token,
                          !.isLoading = FALSE]
       IN GetUserInfo(ScheduleRefresh(p, newExpiresAt), data.access_token)

\* getToken(code) from the response of the token endpoint on, and init()
\* after it.
GetTokenResponse(s, t, data) ==
  IF ~data.ok
  THEN [s EXCEPT !.error = Failed("getToken", data.status), !.isLoading = FALSE]
  ELSE LET newExpiresAt == s.now + data.expires_in * MsPerSecond
           p == [s EXCEPT !.storage.access_token = data.access_token,
                          !.storage.refresh_token = data.refresh_token,
                          !.storage.expires_in = NumberToString(data.expires_in),
                          !.storage.expires_at = NumberToString(newExpiresAt),
                          !.token = data.access_token,
                          !.isLoading = FALSE]
       IN GetUserInfo(ScheduleRefresh(p, newExpiresAt), data.access_token)

\* ------------------------------------------------------- code challenge text

\* The verifiers of the challenge runs: strings of up to MaxVerifierLength
\* characters (the code draws 128) of four characters of `possible`.
VerifierCharacters == {"A", "r", "-", "~"}
VerifierTexts ==
  UNION {[1..n -> VerifierCharacters] : n \in 1..MaxVerifierLength}

\* new TextEncoder().encode(codeVerifier): the characters of `possible` are
\* ASCII, one byte each.
CharCode(c) ==
  CASE c = "A" -> 65 [] c = "r" -> 114 [] c = "-" -> 45 [] c = "~" -> 126

Encode(text) == [i \in 1..Len(text) |-> CharCode(text[i])]

\* window.crypto.subtle.digest("SHA-256", data).  SHA-256 is not computed:
\* this fixed function of the data stands for it, DigestLength bytes (the
\* digest has 32; 32 and DigestLength leave the same remainder by 3) that
\* take values whose base64 text has "+", "/" and the padding.
Sha256(data) ==
  [i \in 1..DigestLength |->
     (2 * data[((i - 1) % Len(data)) + 1] + 3 + (i - 1) * Len(data)) % 256]

\* The base64 alphabet of btoa.
Base64Alphabet ==
  << "A", "B", "C", "D", "E", "F", "G", "H", "I", "J", "K", "L", "M", "N", "O", "P",
     "Q", "R", "S", "T", "U", "V", "W", "X", "Y", "Z", "a", "b", "c", "d", "e", "f",
     "g", "h", "i", "j", "k", "l", "m", "n", "o", "p", "q", "r", "s", "t", "u", "v",
     "w", "x", "y", "z", "0", "1", "2", "3", "4", "5", "6", "7", "8", "9", "+", "/" >>

Base64Char(sextet) == Base64Alphabet[sextet + 1]

\* btoa(String.fromCharCode(...bytes))
RECURSIVE Btoa(_)
Btoa(bytes) ==
  IF Len(bytes) = 0 THEN << >>
  ELSE IF Len(bytes) = 1
  THEN << Base64Char(bytes[1] \div 4), Base64Char((bytes[1] % 4) * 16), "=", "=" >>
  ELSE IF Len(bytes) = 2
  THEN << Base64Char(bytes[1] \div 4),
          Base64Char((bytes[1] % 4) * 16 + bytes[2] \div 16),
          Base64Char((bytes[2] % 16) * 4), "=" >>
  ELSE << Base64Char(bytes[1] \div 4),
          Base64Char((bytes[1] % 4) * 16 + bytes[2] \div 16),
          Base64Char((bytes[2] % 16) * 4 + bytes[3] \div 64),
          Base64Char(bytes[3] % 64) >>
       \o Btoa(SubSeq(bytes, 4, Len(bytes)))

\* text.replace(/from/g, to)
Replace(text, from, to) ==
  [i \in 1..Len(text) |-> IF text[i] = from THEN to ELSE text[i]]

\* text.replace(/ch/g, "")
Remove(text, ch) == SelectSeq(text, LAMBDA c : c # ch)

\* GenerateCodeChallengeText without the replacement of "+".
GenerateCodeChallengeKeepingPlus(codeVerifier) ==
  Replace(Remove(Btoa(Sha256(Encode(codeVerifier))), "="), "/", "_")

\* generateCodeChallenge, on the text of a verifier.
GenerateCodeChallengeText(codeVerifier) ==
  Replace(Replace(Remove(Btoa(Sha256(Encode(codeVerifier))), "="), "+", "-"),
          "/", "_")

\* ------------------------------------------------------------------ timer

CeilDiv(a, b) == (a + b - 1) \div b

\* The next time an interval armed for `due` fires after it fired at `t`.
NextDue(due, period, t) ==
  due + period * ((t - due) \div period + 1)

\* ToggleTimer without the restart of a completed timer.
ToggleTimerKeepingComplete(s) == [s EXCEPT !.isRunning = ~s.isRunning]

\* ToggleTimer restarting a completed timer without clearing timerComplete.
ToggleTimerLeavingCompleteSet(s) ==
  LET c == IF s.timerComplete
           THEN [s EXCEPT !.isWorking = TRUE, !.currentPomodoro = 0,
                          !.timeLeft = s.workMinutes * 60]
           ELSE s
  IN [c EXCEPT !.isRunning = ~s.isRunning]

\* toggleTimer
ToggleTimer(s) ==
  LET c == IF s.timerComplete
           THEN [s EXCEPT !.isWorking = TRUE, !.currentPomodoro = 0,
                          !.timeLeft = s.workMinutes * 60,
                          !.timerComplete = FALSE]
           ELSE s
  IN [c EXCEPT !.isRunning = ~s.isRunning]

\* ResetTimer leaving the pomodoro count as it is.
ResetTimerKeepingCount(s) ==
  [s EXCEPT !.isRunning = FALSE, !.isWorking = TRUE,
            !.timeLeft = s.workMinutes * 60, !.timerComplete = FALSE]

\* resetTimer
ResetTimer(s) ==
  [s EXCEPT !.isRunning = FALSE, !.isWorking = TRUE, !.currentPomodoro = 0,
            !.timeLeft = s.workMinutes * 60, !.timerComplete = FALSE]

\* What is typed into a number input: an optional minus sign and digits.
Typed(neg, n) == [neg |-> neg, digits |-> NumberToString(n)]

\* parseInt(e.target.value, 10)
ParseTyped(v) == IF v.neg THEN 0 - ParseDigits(v.digits) ELSE ParseDigits(v.digits)

\* What is typed into the inputs during a pomodoro session.
WorkMinutesTyped == {Typed(FALSE, 5), Typed(TRUE, 1)}
BreakMinutesTyped == {Typed(FALSE, 25)}
PomodorosTyped == {Typed(FALSE, 1), Typed(FALSE, 2)}

\* SetPreset rewriting timeLeft with the work minutes in a break as well.
SetPresetIgnoringPhase(s, workMins, breakMins) ==
  LET c == [s EXCEPT !.workMinutes = workMins, !.breakMinutes = breakMins] IN
  IF ~s.isRunning THEN [c EXCEPT !.timeLeft = workMins * 60] ELSE c

\* setPreset
SetPreset(s, workMins, breakMins) ==
  LET c == [s EXCEPT !.workMinutes = workMins, !.breakMinutes = breakMins] IN
  IF ~s.isRunning
  THEN IF s.isWorking THEN [c EXCEPT !.timeLeft = workMins * 60]
                      ELSE [c EXCEPT !.timeLeft = breakMins * 60]
  ELSE c

\* The "Common Timings" buttons: 25/5, 45/15, 60/30.
Presets == {<< 25, 5 >>, << 45, 15 >>, << 60, 30 >>}

\* onChange of the Work Minutes input
OnWorkMinutesChange(s, value) ==
  LET c == [s EXCEPT !.workMinutes = ParseTyped(value)] IN
  IF ~s.isRunning /\ s.isWorking THEN [c EXCEPT !.timeLeft = ParseTyped(value) * 60]
                                  ELSE c

\* onChange of the Break Minutes input
OnBreakMinutesChange(s, value) ==
  LET c == [s EXCEPT !.breakMinutes = ParseTyped(value)] IN
  IF ~s.isRunning /\ ~s.isWorking THEN [c EXCEPT !.timeLeft = ParseTyped(value) * 60]
                                   ELSE c

\* onChange of the Pomodoros input
OnPomodorosChange(s, value) == [s EXCEPT !.totalPomodoros = ParseTyped(value)]

\* OnVisibilityChange without the clamp at zero.
OnVisibilityChangeUnclamped(s) ==
  IF s.isRunning /\ ~s.timerComplete
  THEN [s EXCEPT !.timeLeft = CeilDiv(s.endTimeRef - s.now, MsPerSecond)]
  ELSE s

\* onVisibilityChange, the page having become visible
OnVisibilityChange(s) ==
  IF s.isRunning /\ ~s.timerComplete
  THEN [s EXCEPT !.timeLeft = Max(0, CeilDiv(s.endTimeRef - s.now, MsPerSecond))]
  ELSE s

\* IntervalCallback counting a pomodoro when a break runs out as well.
IntervalCallbackCountingBreaks(s) ==
  LET remainingMs == s.endTimeRef - s.now IN
  IF remainingMs <= 0
  THEN LET c == [s EXCEPT !.tickDue = Null, !.timeLeft = 0] IN
       IF s.isWorking
       THEN LET nextPomodoro == s.currentPomodoro + 1 IN
            IF nextPomodoro >= s.totalPomodoros
            THEN HandleCommand([c EXCEPT !.timerComplete = TRUE,
                                         !.isRunning = FALSE], "pause")
            ELSE HandleCommand([c EXCEPT !.isWorking = FALSE,
                                         !.currentPomodoro = nextPomodoro,
                                         !.timeLeft = s.breakMinutes * 60], "pause")
       ELSE HandleCommand([c EXCEPT !.isWorking = TRUE,
                                    !.currentPomodoro = @ + 1,
                                    !.timeLeft = s.workMinutes * 60], "play")
  ELSE [s EXCEPT !.timeLeft = CeilDiv(remainingMs, MsPerSecond),
                 !.tickDue = NextDue(s.tickDue, TickPeriod, s.now)]

\* IntervalCallback completing the timer one work phase late.
IntervalCallbackOneMore(s) ==
  LET remainingMs == s.endTimeRef - s.now IN
  IF remainingMs <= 0
  THEN LET c == [s EXCEPT !.tickDue = Null, !.timeLeft = 0] IN
       IF s.isWorking
       THEN LET nextPomodoro == s.currentPomodoro + 1 IN
            IF nextPomodoro > s.totalPomodoros
            THEN HandleCommand([c EXCEPT !.timerComplete = TRUE,
                                         !.isRunning = FALSE], "pause")
            ELSE HandleCommand([c EXCEPT !.isWorking = FALSE,
                                         !.currentPomodoro = nextPomodoro,
                                         !.timeLeft = s.breakMinutes * 60], "pause")
       ELSE HandleCommand([c EXCEPT !.isWorking = TRUE,
                                    !.timeLeft = s.workMinutes * 60], "play")
  ELSE [s EXCEPT !.timeLeft = CeilDiv(remainingMs, MsPerSecond),
                 !.tickDue = NextDue(s.tickDue, TickPeriod, s.now)]

\* IntervalCallback counting timeLeft down by one per tick instead of
\* reading the clock.
IntervalCallbackDecrementing(s) ==
  IF s.timeLeft - 1 <= 0
  THEN LET c == [s EXCEPT !.tickDue = Null, !.timeLeft = 0] IN
       IF s.isWorking
       THEN LET nextPomodoro == s.currentPomodoro + 1 IN
            IF nextPomodoro >= s.totalPomodoros
            THEN HandleCommand([c EXCEPT !.timerComplete = TRUE,
                                         !.isRunning = FALSE], "pause")
            ELSE HandleCommand([c EXCEPT !.isWorking = FALSE,
                                         !.currentPomodoro = nextPomodoro,
                                         !.timeLeft = s.breakMinutes * 60], "pause")
       ELSE HandleCommand([c EXCEPT !.isWorking = TRUE,
                                    !.timeLeft = s.workMinutes * 60], "play")
  ELSE [s EXCEPT !.timeLeft = @ - 1,
                 !.tickDue = NextDue(s.tickDue, TickPeriod, s.now)]

\* IntervalCallback rounding the remaining time down to whole seconds.
IntervalCallbackRoundingDown(s) ==
  LET remainingMs == s.endTimeRef - s.now IN
  IF remainingMs <= 0
  THEN LET c == [s EXCEPT !.tickDue = Null, !.timeLeft = 0] IN
       IF s.isWorking
       THEN LET nextPomodoro == s.currentPomodoro + 1 IN
            IF nextPomodoro >= s.totalPomodoros
            THEN HandleCommand([c EXCEPT !.timerComplete = TRUE,
                                         !.isRunning = FALSE], "pause")
            ELSE HandleCommand([c EXCEPT !.isWorking = FALSE,
                                         !.currentPomodoro = nextPomodoro,
                                         !.timeLeft = s.breakMinutes * 60], "pause")
       ELSE HandleCommand([c EXCEPT !.isWorking = TRUE,
                                    !.timeLeft = s.workMinutes * 60], "play")
  ELSE [s EXCEPT !.timeLeft = remainingMs \div MsPerSecond,
                 !.tickDue = NextDue(s.tickDue, TickPeriod, s.now)]

\* The callback of the one-second interval of the timer effect.
IntervalCallback(s) ==
  LET remainingMs == s.endTimeRef - s.now IN
  IF remainingMs <= 0
  THEN LET c == [s EXCEPT !.tickDue = Null, !.timeLeft = 0] IN
       IF s.isWorking
       THEN LET nextPomodoro == s.currentPomodoro + 1 IN
            IF nextPomodoro >= s.totalPomodoros
            THEN HandleCommand([c EXCEPT !.timerComplete = TRUE,
                                         !.isRunning = FALSE], "pause")
            ELSE HandleCommand([c EXCEPT !.isWorking = FALSE,
                                         !.currentPomodoro = nextPomodoro,
                                         !.timeLeft = s.breakMinutes * 60], "pause")
       ELSE HandleCommand([c EXCEPT !.isWorking = TRUE,
                                    !.timeLeft = s.workMinutes * 60], "play")
  ELSE [s EXCEPT !.timeLeft = CeilDiv(remainingMs, MsPerSecond),
                 !.tickDue = NextDue(s.tickDue, TickPeriod, s.now)]

\* ---------------------------------------------------------------- effects

\* TimerEffect keeping the deadline of an earlier start of the phase.
TimerEffectKeepingDeadline(s) ==
  LET c == [s EXCEPT !.tickDue = Null] IN
  IF c.isRunning /\ ~c.timerComplete
  THEN [c EXCEPT !.endTimeRef = IF s.endTimeRef > s.now THEN @
                                ELSE c.now + c.timeLeftRef * MsPerSecond,
                 !.tickDue = c.now + TickPeriod]
  ELSE c

\* The timer effect: the cleanup of its last run, then its body.
TimerEffect(s) ==
  LET c == [s EXCEPT !.tickDue = Null] IN
  IF c.isRunning /\ ~c.timerComplete
  THEN [c EXCEPT !.endTimeRef = c.now + c.timeLeftRef * MsPerSecond,
                 !.tickDue = c.now + TickPeriod]
  ELSE c

\* SyncEffect playing whenever the timer runs, in a break as well.
SyncEffectPlayingInBreak(s) ==
  IF Truthy(s.token)
  THEN IF s.isRunning THEN HandleCommand(s, "play")
                      ELSE HandleCommand(s, "pause")
  ELSE s

\* "Synchronize Spotify playback with Pomodoro state"
SyncEffect(s) ==
  IF Truthy(s.token)
  THEN IF s.isWorking /\ s.isRunning THEN HandleCommand(s, "play")
                                     ELSE HandleCommand(s, "pause")
  ELSE s

\* "Refresh playback state periodically": the cleanup of its last run, then
\* its body.
PollEffect(s) ==
  IF Truthy(s.token) THEN [s EXCEPT !.pollDue = s.now + PollPeriod]
                     ELSE [s EXCEPT !.pollDue = Null]

TimerDeps(s) ==
  << s.isRunning, s.isWorking, s.breakMinutes, s.workMinutes,
     s.currentPomodoro, s.totalPomodoros, s.timerComplete >>

\* The re-render after a step that took the state from o to s: the effects
\* whose dependencies changed run in the order the component declares them.
Render(o, s) ==
  LET s1 == IF s.timeLeft # o.timeLeft THEN [s EXCEPT !.timeLeftRef = s.timeLeft] ELSE s
      s2 == IF TimerDeps(s1) # TimerDeps(o) THEN TimerEffect(s1) ELSE s1
      s3 == IF << s2.isWorking, s2.isRunning, s2.token >>
                # << o.isWorking, o.isRunning, o.token >>
            THEN SyncEffect(s2) ELSE s2
      s4 == IF s3.token # o.token THEN PollEffect(s3) ELSE s3
  IN s4

\* ------------------------------------------------------- page life cycle

\* Logout leaving the scheduled refresh armed.
LogoutKeepingTimer(s) ==
  [s EXCEPT !.storage = EmptyStorage, !.token = Null, !.userInfo = "none",
            !.playbackState = "none"]

\* Logout clearing the error text as well.
LogoutClearingError(s) ==
  ClearRefreshTimeout(
    [s EXCEPT !.storage = EmptyStorage, !.token = Null, !.userInfo = "none",
              !.playbackState = "none", !.error = NoError])

\* handleLogout
Logout(s) ==
  ClearRefreshTimeout(
    [s EXCEPT !.storage = EmptyStorage, !.token = Null, !.userInfo = "none",
              !.playbackState = "none"])

\* The component as its useState / useRef initial values make it, with the
\* localStorage and the clock of the browser.
InitialState(st, t, requests) ==
  [ now |-> t, page |-> "app", authRequest |-> Null, urlCode |-> Null,
    storage |-> st,
    token |-> Null, error |-> NoError, isLoading |-> FALSE,
    userInfo |-> "none", playbackState |-> "none",
    workMinutes |-> DefaultWorkMinutes, breakMinutes |-> DefaultBreakMinutes,
    totalPomodoros |-> DefaultPomodoros, currentPomodoro |-> 0,
    isRunning |-> FALSE, isWorking |-> TRUE,
    timeLeft |-> DefaultWorkMinutes * 60, timerComplete |-> FALSE,
    tickDue |-> Null, endTimeRef |-> 0,
    timeLeftRef |-> DefaultWorkMinutes * 60,
    programmaticChangeRef |-> FALSE, refreshTimeoutRef |-> Null,
    refreshTimers |-> {}, pollDue |-> Null, tasks |-> EmptyBag,
    tokenRequests |-> requests, ev |-> "mount", delivered |-> NoResponse,
    gvtDone |-> {} ]

\* ReplaceState leaving the URL as it is.
ReplaceStateKeepingQuery(s) == s

\* window.history.replaceState({}, document.title, window.location.pathname)
ReplaceState(s) == [s EXCEPT !.urlCode = Null]

\* init() of the mount effect up to its first await.
InitEffectIgnoringExpiry(s) ==
  LET code == s.urlCode
      storedToken == s.storage.access_token
      expiresAt == ParseInt(s.storage.expires_at)
      storedRefresh == s.storage.refresh_token
  IN IF Truthy(code)
     THEN GetToken(ReplaceState(s), code)
     ELSE IF Truthy(storedToken) /\ Truthy(expiresAt)
     THEN GetUserInfo(ScheduleRefresh([s EXCEPT !.token = storedToken], expiresAt),
                      storedToken)
     ELSE IF Truthy(storedRefresh)
     THEN RefreshAccessToken(s, [Task("init", "refresh") EXCEPT !.ret = "init"])
     ELSE s

InitEffect(s) ==
  LET code == s.urlCode
      storedToken == s.storage.access_token
      expiresAt == ParseInt(s.storage.expires_at)
      storedRefresh == s.storage.refresh_token
  IN IF Truthy(code)
     THEN GetToken(ReplaceState(s), code)
     ELSE IF Truthy(storedToken) /\ Truthy(expiresAt) /\ s.now < expiresAt
     THEN GetUserInfo(ScheduleRefresh([s EXCEPT !.token = storedToken], expiresAt),
                      storedToken)
     ELSE IF Truthy(storedRefresh)
     THEN RefreshAccessToken(s, [Task("init", "refresh") EXCEPT !.ret = "init"])
     ELSE s

\* A load of the page at a URL whose `code` query parameter is code (Null:
\* none): the component mounts and its effects run.
Mounted(st, code, t, requests) ==
  LET s0 == [InitialState(st, t, requests) EXCEPT !.urlCode = code,
               !.ev = IF Truthy(code) THEN "callback" ELSE "mount"]
  IN Render(s0, InitEffect(s0))

\* window.location.href = authUrl: the page is gone, and with it the
\* component, its timers and the responses it was waiting for.
Away(st, challenge, t, requests) ==
  [InitialState(st, t, requests) EXCEPT !.page = "away",
                                        !.authRequest = challenge,
                                        !.ev = "navigate"]

\* What the token endpoint can answer to the token request t.  The n-th
\* request it receives is answered, when it succeeds, with access token n
\* and (always for a code exchange, optionally for a refresh) refresh
\* token n.  A code exchange can succeed only with the verifier of the
\* challenge the code was issued for.
TokenFailures == {[ok |-> FALSE, status |-> st, access_token |-> Null,
                   refresh_token |-> Null, expires_in |-> Null] :
                     st \in {400, NetworkError}}
TokenSuccesses(t) ==
  {[ok |-> TRUE, status |-> 200, access_token |-> t.n, refresh_token |-> r,
    expires_in |-> e] :
      r \in (IF t.fn = "getToken" THEN {t.n} ELSE {t.n, Null}),
      e \in ExpiresInChoices}
TokenResponses(t) ==
  IF t.fn = "getToken" /\ GenerateCodeChallenge(t.rt) # t.code
  THEN TokenFailures
  ELSE TokenFailures \cup TokenSuccesses(t)

\* What the resource server can answer to the request t; 500 stands for
\* every non-success status other than 401.
ResourceStatuses(t) ==
  CASE t.fn = "getUserInfo" -> {200, 401, 500, NetworkError}
    [] t.fn = "getPlaybackState" -> {200, 204, 401, 500, NetworkError}
    [] OTHER -> {204, 401, 500, NetworkError}

\* ---------------------------------------------------------------- actions

\* The state a step starts from: the history of the step before is dropped.
Begin == [Cur EXCEPT !.gvtDone = {}, !.delivered = NoResponse]

Delivered(s, t, data) ==
  [s EXCEPT !.delivered =
     [ fn |-> t.fn, ret |-> t.ret, ok |-> data.ok, status |-> data.status,
       access_token |-> data.access_token, refresh_token |-> data.refresh_token,
       expires_in |-> data.expires_in, reqs |-> t.reqs, refs |-> t.refs,
       rt |-> t.rt, code |-> t.code ]]

ResourceData(status) ==
  [ ok |-> Ok(status), status |-> status, access_token |-> Null,
    refresh_token |-> Null, expires_in |-> Null ]

Within(s) ==
  /\ BagCardinality(s.tasks) <= MaxTasks
  /\ s.tokenRequests <= MaxTokenRequests

\* One step: the handler or continuation took the state to s; the
\* component re-renders.
Step(name, s) ==
  LET r == Render(Cur, [s EXCEPT !.ev = name])
  IN Within(r) /\ Becomes(r)

Pending(fns) == {t \in BagToSet(tasks) : t.fn \in fns}

AdvanceClock ==
  /\ now + ClockStep <= MaxClockSteps * ClockStep
  /\ Becomes([Begin EXCEPT !.now = @ + ClockStep, !.ev = "clock"])

\* handleLogin keeping a verifier that is already stored.
HandleLoginKeepingVerifier ==
  /\ page = "app" /\ ~Truthy(token) /\ ~isLoading
  /\ \E v \in Verifiers :
       Step("handleLogin",
            AddTask([Begin EXCEPT !.isLoading = TRUE,
                                  !.storage.code_verifier = IF Truthy(@) THEN @ ELSE v],
                    [Task("login", "digest") EXCEPT !.rt = v]))

\* handleLogin up to its await
HandleLogin ==
  /\ page = "app" /\ ~Truthy(token) /\ ~isLoading
  /\ \E v \in Verifiers :
       Step("handleLogin",
            AddTask([Begin EXCEPT !.isLoading = TRUE, !.storage.code_verifier = v],
                    [Task("login", "digest") EXCEPT !.rt = v]))

\* handleLogin from the digest on: the browser leaves for the authorization
\* endpoint.
Navigate ==
  \E t \in Pending({"digest"}) :
    Becomes(Away(storage, GenerateCodeChallenge(t.rt), now, tokenRequests))

\* The authorization endpoint redirects back, with a code for the challenge
\* it was given or (the user declined) without one.
Redirect ==
  /\ page = "away"
  /\ \E code \in {authRequest, Null} :
       LET m == Mounted(storage, code, now, tokenRequests)
       IN Within(m) /\ Becomes([m EXCEPT !.ev = IF Truthy(code) THEN "callback"
                                                                ELSE "redirect"])

Reload ==
  /\ page = "app"
  /\ LET m == Mounted(storage, urlCode, now, tokenRequests)
     IN Within(m) /\ Becomes([m EXCEPT !.ev = "reload"])

\* The Disconnect button is rendered when token and userInfo are set.
HandleLogout ==
  /\ page = "app" /\ Truthy(token) /\ userInfo # "none"
  /\ Step("handleLogout", Logout(Begin))

TokenResponse ==
  \E t \in Pending({"getToken", "refresh"}) :
    \E data \in TokenResponses(t) :
      LET s == Delivered(RemoveTask(Begin, t), t, data)
      IN Step("tokenResponse",
              IF t.fn = "getToken" THEN GetTokenResponse(s, t, data)
                                   ELSE RefreshResponse(s, t, data))

\* The resource server answers a pending request with a status of the set.
ResourceRespondsWith(statuses) ==
  \E t \in Pending({"getUserInfo", "getPlaybackState", "put", "putRetry"}) :
    \E status \in ResourceStatuses(t) \cap statuses :
      Step("resourceResponse",
           ResourceResponse(Delivered(RemoveTask(Begin, t), t, ResourceData(status)),
                            t, status))

ResourceResponds == ResourceRespondsWith({200, 204, 401, 500, NetworkError})

\* The setTimeout(..., 1000) of handlePlay / handlePause fires.
QuietTimeout ==
  \E t \in Pending({"quiet"}) :
    /\ now >= t.due
    /\ LET s == RemoveTask(Begin, t)
           stored == s.storage.access_token
           g == IF Truthy(stored) THEN GetPlaybackState(s, "poll", stored) ELSE s
       IN Step("quietTimeout", [g EXCEPT !.programmaticChangeRef = FALSE])

\* The playback poll interval fires.
PollInterval ==
  /\ Truthy(pollDue) /\ now >= pollDue
  /\ LET s == [Begin EXCEPT !.pollDue = NextDue(pollDue, PollPeriod, now)]
         stored == s.storage.access_token
     IN Step("pollInterval",
             IF Truthy(stored) THEN GetPlaybackState(s, "poll", stored) ELSE s)

\* An armed proactive refresh timer fires.
RefreshTimeout ==
  \E tm \in refreshTimers :
    /\ now >= tm.due
    /\ Step("refreshTimeout",
            RefreshAccessToken([Begin EXCEPT !.refreshTimers = @ \ {tm}],
                               [Task("timer", "refresh") EXCEPT !.ret = "timer"]))

\* The start / pause button; the timer controls are rendered when token is set.
ToggleTimerClick ==
  /\ page = "app" /\ Truthy(token)
  /\ Step("toggleTimer", ToggleTimer(Begin))

\* The one-second interval of the timer fires.
Tick ==
  /\ Truthy(tickDue) /\ now >= tickDue
  /\ Step("tick", IntervalCallback(Begin))

\* The clock of a pomodoro session moves on by a break or
\* by a work phase (the intervals of a hidden tab fire late).
ElapseWithin(minutes) ==
  \E d \in TimerClockSteps :
    /\ now + d <= minutes * 60 * MsPerSecond
    /\ Becomes([Begin EXCEPT !.now = @ + d, !.ev = "clock"])

Elapse == ElapseWithin(MaxTimerMinutes)

\* The Start button of a timer that has not run yet.
StartFresh ==
  /\ ~isRunning /\ ~timerComplete /\ isWorking /\ currentPomodoro = 0
  /\ timeLeft = workMinutes * 60 /\ endTimeRef = 0
  /\ ToggleTimerClick

\* The Reset button
ResetTimerClick ==
  /\ page = "app" /\ Truthy(token)
  /\ ~(~isRunning /\ timeLeft = workMinutes * 60)
  /\ Step("resetTimer", ResetTimer(Begin))

\* A value is typed into the Work Minutes input.
WorkMinutesInput ==
  /\ page = "app" /\ Truthy(token) /\ ~isRunning
  /\ \E value \in WorkMinutesTyped :
       Step("workMinutesInput", OnWorkMinutesChange(Begin, value))

\* A value is typed into the Break Minutes input.
BreakMinutesInput ==
  /\ page = "app" /\ Truthy(token) /\ ~isRunning
  /\ \E value \in BreakMinutesTyped :
       Step("breakMinutesInput", OnBreakMinutesChange(Begin, value))

\* A value is typed into the Pomodoros input.
PomodorosInput ==
  /\ page = "app" /\ Truthy(token) /\ ~isRunning
  /\ \E value \in PomodorosTyped :
       Step("pomodorosInput", OnPomodorosChange(Begin, value))

\* A "Common Timings" button; the buttons are disabled while the timer runs.
SetPresetClick ==
  /\ page = "app" /\ Truthy(token) /\ ~isRunning
  /\ \E preset \in Presets :
       Step("setPreset", SetPreset(Begin, preset[1], preset[2]))

\* The tab becomes visible again.
VisibilityChange ==
  /\ page = "app"
  /\ Step("visibilityChange", OnVisibilityChange(Begin))

\* The state m is the first state of a run.
StartsAs(m) ==
  /\ now = m.now /\ page = m.page /\ authRequest = m.authRequest
  /\ urlCode = m.urlCode
  /\ storage = m.storage /\ token = m.token /\ error = m.error
  /\ isLoading = m.isLoading /\ userInfo = m.userInfo
  /\ playbackState = m.playbackState /\ workMinutes = m.workMinutes
  /\ breakMinutes = m.breakMinutes /\ totalPomodoros = m.totalPomodoros
  /\ currentPomodoro = m.currentPomodoro /\ isRunning = m.isRunning
  /\ isWorking = m.isWorking /\ timeLeft = m.timeLeft
  /\ timerComplete = m.timerComplete /\ tickDue = m.tickDue
  /\ endTimeRef = m.endTimeRef /\ timeLeftRef = m.timeLeftRef
  /\ programmaticChangeRef = m.programmaticChangeRef
  /\ refreshTimeoutRef = m.refreshTimeoutRef
  /\ refreshTimers = m.refreshTimers /\ pollDue = m.pollDue
  /\ tasks = m.tasks /\ tokenRequests = m.tokenRequests
  /\ ev = m.ev /\ delivered = m.delivered /\ gvtDone = m.gvtDone

\* What localStorage holds when the page is first loaded in a run: nothing
\* (a first visit), or the credential an earlier visit persisted with
\* getToken (its tokens, issued before the run, are numbered -1).
EarlierToken == -1
EarlierCredential(e) ==
  [ access_token |-> EarlierToken, refresh_token |-> EarlierToken,
    expires_in |-> NumberToString(e), expires_at |-> NumberToString(e * MsPerSecond),
    code_verifier |-> CHOOSE v \in Verifiers : TRUE ]
EarlierStorages == {EarlierCredential(e) : e \in ExpiresInChoices}

\* The URL the page is first loaded at: the application's, or a callback
\* URL with a code some authorization request was answered with.
Codes == {GenerateCodeChallenge(v) : v \in Verifiers}

Init ==
  \/ \E st \in {EmptyStorage} \cup EarlierStorages : StartsAs(Mounted(st, Null, 0, 0))
  \/ \E code \in Codes : StartsAs(Mounted(EmptyStorage, code, 0, 0))

Next ==
  \/ AdvanceClock
  \/ HandleLogin
  \/ Navigate
  \/ Redirect
  \/ Reload
  \/ HandleLogout
  \/ TokenResponse
  \/ ResourceResponds
  \/ QuietTimeout
  \/ PollInterval
  \/ RefreshTimeout

\* The session: sign in, page loads, token and resource responses of every
\* kind, the proactive refresh, the playback poll, sign out.
Spec == Init /\ [][Next]_vars

\* The session again, with fewer token requests per run and a resource
\* server that answers 200, 204 or 401.
Capped(A) == A /\ tokenRequests' <= MaxSessionRequests

SessionNext ==
  \/ Capped(AdvanceClock)
  \/ Capped(HandleLogin)
  \/ Capped(Navigate)
  \/ Capped(Redirect)
  \/ Capped(Reload)
  \/ Capped(HandleLogout)
  \/ Capped(TokenResponse)
  \/ Capped(ResourceRespondsWith({200, 204, 401}))
  \/ Capped(QuietTimeout)
  \/ Capped(RefreshTimeout)

SpecSession == Init /\ [][SessionNext]_vars

\* The pomodoro timer of a signed-in user who can sign out.
TimerInit == \E st \in EarlierStorages : StartsAs(Mounted(st, Null, 0, 0))

TimerNext ==
  \/ AdvanceClock
  \/ ToggleTimerClick
  \/ Tick
  \/ HandleLogout
  \/ ResourceRespondsWith({200, 204})
  \/ QuietTimeout

SpecTimer == TimerInit /\ [][TimerNext]_vars

\* A pomodoro session: a signed-in user starts, pauses and resets the
\* timer, changes its settings, hides and shows the tab, while the phases
\* run out.  The resource server answers, and a timeout that is due fires,
\* before the user, the timer or the clock moves on.
PomodoroInit ==
  StartsAs(Mounted(EarlierCredential(TimerSessionSeconds), Null, 0, 0))

Answered(A) ==
  /\ Pending({"getUserInfo", "getPlaybackState", "put", "putRetry"}) = {}
  /\ \A t \in Pending({"quiet"}) : now < t.due
  /\ A

PomodoroNext ==
  \/ Answered(Elapse)
  \/ Answered(ToggleTimerClick)
  \/ Answered(Tick)
  \/ Answered(ResetTimerClick)
  \/ Answered(WorkMinutesInput)
  \/ Answered(BreakMinutesInput)
  \/ Answered(PomodorosInput)
  \/ Answered(VisibilityChange)
  \/ ResourceRespondsWith({200, 204})
  \/ QuietTimeout

SpecPomodoro == PomodoroInit /\ [][PomodoroNext]_vars

\* An uninterrupted run: the signed-in user sets the number of pomodoros
\* (the default or fewer), starts the timer and leaves it alone.
RunInit ==
  \E n \in 1..DefaultPomodoros :
    LET m == Mounted(EarlierCredential(TimerSessionSeconds), Null, 0, 0)
    IN StartsAs(Render(m, OnPomodorosChange(m, Typed(FALSE, n))))

RunNext ==
  \/ Answered(ElapseWithin(MaxRunMinutes))
  \/ Answered(StartFresh)
  \/ Answered(Tick)
  \/ ResourceRespondsWith({200, 204})
  \/ QuietTimeout

SpecRun == RunInit /\ [][RunNext]_vars

\* The settings: a signed-in user types settings and picks presets between
\* starts and pauses of the timer, while the phases run out.
SettingsNext ==
  \/ Answered(Elapse)
  \/ Answered(ToggleTimerClick)
  \/ Answered(Tick)
  \/ Answered(WorkMinutesInput)
  \/ Answered(BreakMinutesInput)
  \/ Answered(PomodorosInput)
  \/ Answered(SetPresetClick)
  \/ ResourceRespondsWith({200, 204})
  \/ QuietTimeout

SpecSettings == PomodoroInit /\ [][SettingsNext]_vars

\* Playback that fails: a signed-in user starts, pauses and resets the
\* timer and sets the number of pomodoros while the phases run out, and the
\* resource server answers, refuses with a status other than 401, or is
\* not reached.
SyncNext ==
  \/ Answered(Elapse)
  \/ Answered(ToggleTimerClick)
  \/ Answered(Tick)
  \/ Answered(ResetTimerClick)
  \/ Answered(PomodorosInput)
  \/ ResourceRespondsWith({200, 204, 500, NetworkError})
  \/ QuietTimeout

SpecSync == PomodoroInit /\ [][SyncNext]_vars

\* A hidden tab: the signed-in user sets a work phase of one minute, starts
\* and pauses the timer; the tab is suspended for half a minute, a little
\* less, or a minute and a half, and becomes visible again.
ResyncClockSteps ==
  {30 * MsPerSecond - MsPerSecond \div 2, 30 * MsPerSecond, 90 * MsPerSecond}

Suspend ==
  \E d \in ResyncClockSteps :
    /\ now + d <= MaxResyncSeconds * MsPerSecond
    /\ Becomes([Begin EXCEPT !.now = @ + d, !.ev = "clock"])

ResyncInit ==
  LET m == Mounted(EarlierCredential(TimerSessionSeconds), Null, 0, 0)
  IN StartsAs(Render(m, OnWorkMinutesChange(m, Typed(FALSE, 1))))

ResyncNext ==
  \/ Answered(Suspend)
  \/ Answered(ToggleTimerClick)
  \/ Answered(Tick)
  \/ Answered(VisibilityChange)
  \/ ResourceRespondsWith({200, 204})
  \/ QuietTimeout

SpecResync == ResyncInit /\ [][ResyncNext]_vars

\* The challenge: handleLogin has stored a verifier and derives the
\* challenge of the authorization request from it, time and again.
ChallengeInit ==
  \E v \in VerifierTexts :
    StartsAs([InitialState(EmptyStorage, 0, 0) EXCEPT !.storage.code_verifier = v,
                                                      !.authRequest = NoString,
                                                      !.ev = "handleLogin"])

DeriveChallenge ==
  /\ page = "app"
  /\ Becomes([Cur EXCEPT
               !.authRequest = GenerateCodeChallengeText(storage.code_verifier),
               !.ev = "digest"])

ChallengeNext == DeriveChallenge

SpecChallenge == ChallengeInit /\ [][ChallengeNext]_vars

\* ------------------------------------------------------------------ claims

Tasks == BagToSet(tasks)

\* The component holds no sign-in: handleLogin writes the verifier and only
\* handleLogout removes it, so the verifier is missing exactly before the
\* first sign-in has begun and from a logout until the next sign-in begins.
SignedOut == page = "app" /\ storage.code_verifier = Null

IssuedBy(fns) == delivered.fn \in fns /\ delivered.ok
RefusedRefresh == delivered.fn = "refresh" /\ ~delivered.ok
ResourceFns == {"getUserInfo", "getPlaybackState", "put", "putRetry"}

\* C1: one invocation of getUserInfo, getPlaybackState, handlePlay or
\* handlePause sends at most two resource requests and invokes
\* refreshAccessToken at most once, whatever the retry is answered with.
C1_AtMostOneRetry == \A t \in Tasks : t.reqs <= 2 /\ t.refs <= 1

\* C1, the run that breaks it: an invocation has sent a third request.
C1_ThirdRequest ==
  \E t \in Tasks : t.fn \in {"getUserInfo", "getPlaybackState"} /\ t.reqs = 3

\* C2: getValidAccessToken returns the stored access token without calling
\* refreshAccessToken exactly when the stored token and expiry are present
\* and the expiry is more than five seconds after now; otherwise it calls
\* refreshAccessToken and returns the token that refresh stored, or nothing.
C2_GetValidToken ==
  \A g \in gvtDone :
    /\ g.path = "stored" <=>
         (Truthy(g.snap.tok) /\ Truthy(g.snap.exp) /\ g.snap.exp > g.snap.at + 5000)
    /\ g.path = "stored" => g.result = g.snap.tok
    /\ g.path = "refresh" =>
         \/ g.result = Null
         \/ /\ IssuedBy({"refresh"})
            /\ g.result = delivered.access_token
            /\ g.result = storage.access_token

\* C2, its case: a stored token that expires in three seconds is not
\* returned; the refreshed token is.
C2_NearExpiryRefreshed ==
  \E g \in gvtDone :
    /\ g.path = "refresh" /\ Truthy(g.snap.tok)
    /\ g.snap.exp = g.snap.at + 3000
    /\ Truthy(g.result) /\ g.result # g.snap.tok

\* C3: the stored credential is whole: access token, refresh token and
\* expiry are all stored or all missing.
C3_CredentialWhole ==
  LET present == { Truthy(storage.access_token), Truthy(storage.refresh_token),
                   storage.expires_at # NoString }
  IN Cardinality(present) = 1

\* C3, the run that breaks it: after a logout the storage holds an access
\* token and an expiry without a refresh token.
C3_PartialAfterLogout ==
  /\ SignedOut /\ Truthy(storage.access_token) /\ storage.expires_at # NoString
  /\ ~Truthy(storage.refresh_token)

\* C4: from a logout until the next sign-in no proactive refresh timer is
\* armed, whatever responses arrive in between.
C4_NoTimerAfterLogout == SignedOut => refreshTimers = {}

\* C4, the run that breaks it: the response to a refresh that was in flight
\* at the logout has armed a timer.
C4_LateRefreshArmed ==
  SignedOut /\ IssuedBy({"refresh"}) /\ refreshTimers # {} /\ Truthy(token)

\* C5: after a logout the one-second interval of the timer is cancelled and
\* no tick is delivered.
C5_NoTickAfterLogout == SignedOut => tickDue = Null /\ ev # "tick"

\* C5, the run that breaks it: a tick was delivered after the logout.
C5_TickAfterLogout == SignedOut /\ ev = "tick" /\ isRunning

\* C6: the logout step leaves the storage without access token, refresh
\* token, expiry and verifier, the component without token, profile and
\* playback snapshot, no refresh timer armed and the playback poll stopped.
C6_LogoutClears ==
  ev = "handleLogout" =>
    /\ storage = EmptyStorage
    /\ token = Null /\ userInfo = "none" /\ playbackState = "none"
    /\ refreshTimers = {} /\ refreshTimeoutRef = Null
    /\ pollDue = Null

\* C6, its case: a logout while requests are in flight.
C6_LoggedOut == ev = "handleLogout" /\ tasks # EmptyBag /\ now > 0

\* C7: after a code exchange or a refresh succeeds, and after a page load
\* restores an unexpired token, exactly one refresh timer is armed, for
\* max(5 s, expiresAt - now - 60 s) from now.
C7_RefreshArmed ==
  LET lead == ParseInt(storage.expires_at) - now - RefreshLead
      delay == IF lead > MinRefreshDelay THEN lead ELSE MinRefreshDelay
  IN (\/ IssuedBy({"getToken", "refresh"})
      \/ ev \in {"mount", "reload", "redirect"} /\ Truthy(token))
     => /\ Truthy(refreshTimeoutRef)
        /\ refreshTimers = {[id |-> refreshTimeoutRef, due |-> now + delay]}

\* C7, its case: the refresh the timer started has succeeded and a timer is
\* armed again.
C7_Rearmed ==
  /\ IssuedBy({"refresh"}) /\ delivered.ret = "timer"
  /\ \E tm \in refreshTimers : tm.due > now

\* C8: a successful refresh stores the access token of the response and
\* now + expires_in as the expiry; it stores the refresh token of the
\* response if it carries one and leaves the stored one as it was if not.
C8_RefreshPersists ==
  [][ (delivered'.fn = "refresh" /\ delivered'.ok) =>
        /\ storage'.access_token = delivered'.access_token
        /\ ParseInt(storage'.expires_at) = now' + delivered'.expires_in * MsPerSecond
        /\ storage'.refresh_token =
             IF Truthy(delivered'.refresh_token) THEN delivered'.refresh_token
                                                 ELSE storage.refresh_token ]_vars

\* C8, its case: the response carried no refresh token and the stored one
\* is still there.
C8_RefreshTokenKept ==
  /\ IssuedBy({"refresh"}) /\ ~Truthy(delivered.refresh_token)
  /\ Truthy(storage.refresh_token)
  /\ storage.access_token = delivered.access_token

\* C9: a refresh request is sent only with a stored refresh token, and a
\* refresh the token endpoint refuses (or that fails) leaves the stored
\* access token, refresh token and expiry, the token of the component and
\* the refresh timers as they were; refreshAccessToken sets no error (the
\* error of the step is the one getUserInfo / getPlaybackState set for their
\* own 401).
C9_FailedRefreshChangesNothing ==
  [][ /\ \A t \in BagToSet(tasks') : t.fn = "refresh" => Truthy(t.rt)
      /\ (delivered'.fn = "refresh" /\ ~delivered'.ok) =>
           /\ storage' = storage
           /\ token' = token
           /\ refreshTimers' = refreshTimers
           /\ refreshTimeoutRef' = refreshTimeoutRef
           /\ \/ error' = error
              \/ /\ delivered'.ret \in {"getUserInfo", "getPlaybackState"}
                 /\ error' = Failed(delivered'.ret, 401) ]_vars

\* C9, its case: a refresh was refused while a credential is stored and a
\* refresh timer is armed.
C9_Refused ==
  /\ RefusedRefresh /\ Truthy(storage.access_token)
  /\ Truthy(storage.refresh_token) /\ refreshTimers # {}

\* C10: a resource response with a non-success status other than 401 is
\* surfaced as an error with that status, and a 401 whose refresh failed is
\* surfaced as an error with status 401.
C10_FailureSurfaced ==
  /\ (/\ delivered.fn \in ResourceFns
      /\ ~delivered.ok /\ delivered.status \notin {401, NetworkError})
     => error.what # "none" /\ error.status = delivered.status
  /\ (RefusedRefresh /\ delivered.ret \in {"getUserInfo", "getPlaybackState", "put"})
     => error.what # "none" /\ error.status = 401

\* C10, the run that breaks it: a command was answered 500 and no error is
\* set.
C10_CommandFailureSilent ==
  /\ delivered.fn \in {"put", "putRetry"} /\ delivered.status = 500
  /\ error = NoError

\* C11: when the first request of getPlaybackState is answered 401, the
\* refresh it then awaits succeeds and the retry is answered 200, the call
\* has set no error (neither when the refresh returned and the retry was sent
\* with the refreshed token, nor when the retry was answered), the snapshot
\* of the retry is stored, and the call has invoked exactly one refresh.
C11_RetryStored ==
  [][ /\ (delivered'.fn = "refresh" /\ delivered'.ret = "getPlaybackState"
           /\ delivered'.reqs = 1 /\ delivered'.ok)
        => /\ error' = error
           /\ \E t \in BagToSet(tasks') :
                /\ t.fn = "getPlaybackState" /\ t.reqs = 2 /\ t.refs = 1
                /\ t.arg = delivered'.access_token
      /\ (delivered'.fn = "getPlaybackState" /\ delivered'.reqs = 2
           /\ delivered'.status = 200)
        => /\ playbackState' = "snapshot"
           /\ error' = error
           /\ delivered'.refs = 1 ]_vars

C11_RetryAnswered ==
  /\ delivered.fn = "getPlaybackState" /\ delivered.reqs = 2
  /\ delivered.status = 200 /\ playbackState = "snapshot"
  /\ error = NoError

\* C12: a code exchange that fails persists nothing.  A callback page load
\* that finds no verifier in storage sends no token request and writes
\* nothing to storage, and when the token endpoint answers a code exchange
\* with a failure the storage is left as it was; in both cases no refresh
\* timer is armed, token stays unset, the error names the failure (with the
\* HTTP status when there is one) and isLoading is false.
NoVerifierAtCallback == ev = "callback" /\ storage.code_verifier = Null

C12_FailedLoginPersistsNothing ==
  /\ [](NoVerifierAtCallback =>
          /\ Pending({"getToken"}) = {}
          /\ refreshTimers = {} /\ refreshTimeoutRef = Null
          /\ token = Null
          /\ error = Failed("getToken:noVerifier", Null)
          /\ ~isLoading)
  /\ [][ /\ NoVerifierAtCallback' =>
              storage' = storage /\ tokenRequests' = tokenRequests
         /\ (delivered'.fn = "getToken" /\ ~delivered'.ok) =>
              /\ storage' = storage
              /\ refreshTimers' = {} /\ refreshTimeoutRef' = Null
              /\ token' = Null
              /\ error' = Failed("getToken", delivered'.status)
              /\ ~isLoading' ]_vars

C12_ExchangeRefused ==
  /\ delivered.fn = "getToken" /\ ~delivered.ok /\ delivered.status = 400
  /\ error = Failed("getToken", 400) /\ token = Null /\ ~isLoading
  /\ storage.access_token = Null

\* C13: the verifier is consumed by the code exchange that reads it: once
\* the token endpoint has answered the exchange, storage holds no verifier.
C13_VerifierConsumed == delivered.fn = "getToken" => storage.code_verifier = Null

C13_VerifierLeft ==
  /\ IssuedBy({"getToken"}) /\ Truthy(token)
  /\ storage.code_verifier = delivered.rt /\ Truthy(delivered.rt)

\* C14: every code exchange carries the verifier whose challenge was sent
\* in the authorization request that produced its code: a pending exchange
\* carries a verifier, and its code is the code of that verifier's challenge.
C14_VerifierMatchesChallenge ==
  \A t \in Tasks :
    t.fn = "getToken" => /\ Truthy(t.rt)
                         /\ t.code = GenerateCodeChallenge(t.rt)

C14_SecondVerifierExchanged ==
  \E t \in Tasks :
    /\ t.fn = "getToken" /\ t.rt = 2 /\ t.code = GenerateCodeChallenge(2)
    /\ storage.code_verifier = 2 /\ urlCode = Null

\* C15: the code is stripped from the URL before the exchange starts, and
\* a code is submitted at most once: the URL of the mounted page never holds
\* a code, a code exchange is started only by the page load of a redirect
\* from the authorization endpoint (which carries a fresh code), and a reload
\* starts none.
C15_CodeSubmittedOnce ==
  /\ [](page = "app" => urlCode = Null)
  /\ [][ /\ (\E t \in BagToSet(tasks') : t.fn = "getToken" /\ ~BagIn(t, tasks))
             => page = "away" /\ ev' = "callback"
         /\ ev' = "reload" => \A t \in BagToSet(tasks') : t.fn # "getToken" ]_vars

C15_ReloadAfterRefusedExchange ==
  /\ ev = "reload" /\ tokenRequests = 1 /\ storage.access_token = Null
  /\ Truthy(storage.code_verifier) /\ urlCode = Null /\ tasks = EmptyBag

\* A getValidAccessToken call that found a stored token more than the
\* margin before its stored expiry returned exactly that token.
ValidTokenReturned ==
  \A g \in gvtDone :
    (Truthy(g.snap.tok) /\ Truthy(g.snap.exp) /\ g.snap.at < g.snap.exp - RefreshMargin)
      => g.path = "stored" /\ g.result = g.snap.tok

\* C16 as amended: after a successful code exchange or refresh the stored
\* access token is the response's, the stored refresh token is the
\* response's when it carries one and the one stored before when it does not,
\* the stored expiry parses to the time of persisting plus expires_in seconds
\* in milliseconds, and getValidAccessToken called earlier than the stored
\* expiry minus five seconds returns exactly the stored access token.
C16_CredentialReadsBack ==
  [][ /\ IssuedBy({"getToken", "refresh"})' =>
          /\ storage'.access_token = delivered'.access_token
          /\ storage'.refresh_token =
                IF Truthy(delivered'.refresh_token) THEN delivered'.refresh_token
                                                    ELSE storage.refresh_token
          /\ ParseInt(storage'.expires_at)
                = now' + delivered'.expires_in * MsPerSecond
          /\ ParseInt(storage'.expires_in) = delivered'.expires_in
      /\ ValidTokenReturned' ]_vars

\* C16 as stated: the stored refresh token is always the response's.
C16_TokensOfResponse ==
  [][ IssuedBy({"getToken", "refresh"})' =>
        /\ storage'.access_token = delivered'.access_token
        /\ storage'.refresh_token = delivered'.refresh_token
        /\ ParseInt(storage'.expires_at)
              = now' + delivered'.expires_in * MsPerSecond ]_vars

C16_PersistedAndRead ==
  /\ IssuedBy({"refresh"}) /\ delivered.refresh_token = Null
  /\ storage.refresh_token = EarlierToken
  /\ storage.access_token = delivered.access_token
  /\ now > 0
  /\ \E g \in gvtDone : g.path = "stored" /\ g.result = storage.access_token
                          /\ g.snap.exp = now + delivered.expires_in * MsPerSecond

\* The interval callback runs at or after the deadline of the phase.
Expiry == ev' = "tick" /\ now >= endTimeRef

\* C17: the phase transition rule.  A tick at or after the deadline of a
\* work phase completes the timer and stops it when currentPomodoro + 1 >=
\* totalPomodoros, and otherwise enters the break with timeLeft = breakMinutes
\* * 60, currentPomodoro one higher, the timer running and its deadline a
\* break away; a tick at or after the deadline of a break enters the work
\* phase with timeLeft = workMinutes * 60 and currentPomodoro unchanged.
C17_PhaseTransition ==
  [][ Expiry =>
        /\ (isWorking /\ currentPomodoro + 1 >= totalPomodoros) =>
              /\ timerComplete' /\ ~isRunning' /\ tickDue' = Null
              /\ isWorking' /\ currentPomodoro' = currentPomodoro
        /\ (isWorking /\ currentPomodoro + 1 < totalPomodoros) =>
              /\ ~isWorking' /\ timeLeft' = breakMinutes * 60
              /\ currentPomodoro' = currentPomodoro + 1
              /\ isRunning' /\ ~timerComplete' /\ Truthy(tickDue')
              /\ endTimeRef' = now' + breakMinutes * 60 * MsPerSecond
        /\ ~isWorking =>
              /\ isWorking' /\ timeLeft' = workMinutes * 60
              /\ currentPomodoro' = currentPomodoro
              /\ isRunning' /\ ~timerComplete' /\ Truthy(tickDue')
              /\ endTimeRef' = now' + workMinutes * 60 * MsPerSecond ]_vars

C17_BackToWork ==
  /\ ev = "tick" /\ isWorking /\ isRunning /\ currentPomodoro = 1
  /\ timeLeft = workMinutes * 60 /\ endTimeRef = now + workMinutes * 60 * MsPerSecond
  /\ now >= (DefaultWorkMinutes + DefaultBreakMinutes) * 60 * MsPerSecond

\* N work phases and the N - 1 breaks between them, in milliseconds.
WholeSession ==
  (totalPomodoros * workMinutes + (totalPomodoros - 1) * breakMinutes)
    * 60 * MsPerSecond

\* C18: a timer started fresh with totalPomodoros = N and left alone
\* completes exactly when the N-th work phase runs out.  currentPomodoro
\* changes only by one, and exactly when a work phase runs out into a break,
\* so it counts the breaks entered; a break is entered only with
\* currentPomodoro' <= N - 1; the timer completes only at the expiry of a work
\* phase with currentPomodoro = N - 1 (N - 1 breaks entered before), not
\* before N work phases and N - 1 breaks have passed, and once complete it
\* stays complete, in the work phase, with currentPomodoro = N - 1.
C18_CompleteAfterLastWork ==
  /\ [](timerComplete => /\ currentPomodoro = totalPomodoros - 1
                         /\ isWorking /\ ~isRunning
                         /\ now >= WholeSession)
  /\ [](~isWorking => currentPomodoro \in 1..(totalPomodoros - 1))
  /\ [][ /\ currentPomodoro' # currentPomodoro =>
              /\ Expiry /\ isWorking /\ ~isWorking'
              /\ currentPomodoro' = currentPomodoro + 1
         /\ (isWorking /\ ~isWorking') =>
              /\ Expiry
              /\ currentPomodoro' = currentPomodoro + 1
              /\ currentPomodoro' <= totalPomodoros - 1
         /\ (timerComplete' /\ ~timerComplete) =>
              /\ Expiry /\ isWorking
              /\ currentPomodoro = totalPomodoros - 1
         /\ timerComplete =>
              timerComplete' /\ isWorking' /\ currentPomodoro' = currentPomodoro
         /\ totalPomodoros' = totalPomodoros ]_vars

C18_FourthWorkDone ==
  /\ timerComplete /\ totalPomodoros = DefaultPomodoros
  /\ currentPomodoro = DefaultPomodoros - 1 /\ ev = "tick"
  /\ workMinutes = DefaultWorkMinutes /\ breakMinutes = DefaultBreakMinutes

\* C19: a tick of the running timer never decreases currentPomodoro, and
\* timeLeft is never negative.
C19_NeverNegative ==
  /\ [][ev' = "tick" => currentPomodoro' >= currentPomodoro]_vars
  /\ [](timeLeft >= 0)

C19_NegativeTyped ==
  /\ ev = "workMinutesInput" /\ ~isRunning /\ isWorking
  /\ workMinutes < 0 /\ timeLeft = workMinutes * 60

\* C20: currentPomodoro is at least 0 and less than totalPomodoros.
C20_CycleIndexInRange == 0 <= currentPomodoro /\ currentPomodoro < totalPomodoros

C20_FewerPomodorosTyped ==
  /\ ev = "pomodorosInput" /\ ~isRunning /\ ~timerComplete
  /\ totalPomodoros = 1 /\ currentPomodoro = 1

\* C21: a completed timer stays as it is until it is reset or restarted.
\* While timerComplete holds, every step other than the Reset button and the
\* Start button (ticks, visibility changes, responses and timeouts of the
\* playback calls, typed settings, the clock) leaves isWorking,
\* currentPomodoro, isRunning and timerComplete unchanged; the Reset button
\* yields the work phase, pomodoro 0, timeLeft = workMinutes * 60, not running,
\* not complete; the Start button yields the same but running.
C21_CompleteIsTerminal ==
  /\ [](timerComplete => ~isRunning /\ tickDue = Null)
  /\ [][ timerComplete =>
          /\ ev' \notin {"resetTimer", "toggleTimer"} =>
                UNCHANGED << isWorking, currentPomodoro, isRunning, timerComplete >>
          /\ ev' = "resetTimer" =>
                /\ isWorking' /\ currentPomodoro' = 0
                /\ timeLeft' = workMinutes * 60
                /\ ~isRunning' /\ ~timerComplete' /\ tickDue' = Null
          /\ ev' = "toggleTimer" =>
                /\ isWorking' /\ currentPomodoro' = 0
                /\ timeLeft' = workMinutes * 60
                /\ isRunning' /\ ~timerComplete'
                /\ endTimeRef' = now' + workMinutes * 60 * MsPerSecond ]_vars

C21_UntouchedWhileComplete ==
  /\ timerComplete /\ ev = "visibilityChange"
  /\ ~isRunning /\ isWorking /\ timeLeft = 0

C23_PauseReadsDeadline ==
  [][ (ev' = "toggleTimer" /\ isRunning) =>
        /\ ~isRunning'
        /\ timeLeft' = Max(0, CeilDiv(endTimeRef - now', MsPerSecond)) ]_vars

\* A work phase started at 0 is paused five minutes later, before the
\* interval fired: timeLeft is still the whole phase.
C23_PausedWithStaleTime ==
  /\ ev = "toggleTimer" /\ ~isRunning /\ ~timerComplete /\ isWorking
  /\ endTimeRef = DefaultWorkMinutes * 60 * MsPerSecond
  /\ now = DefaultBreakMinutes * 60 * MsPerSecond
  /\ timeLeft = DefaultWorkMinutes * 60

C25_ResetYieldsIdle ==
  [][ ev' = "resetTimer" =>
        /\ isWorking' /\ currentPomodoro' = 0
        /\ timeLeft' = workMinutes * 60 /\ timeLeftRef' = timeLeft'
        /\ ~isRunning' /\ ~timerComplete' /\ tickDue' = Null
        /\ UNCHANGED << workMinutes, breakMinutes, totalPomodoros >> ]_vars

\* A reset after the first work phase ran out, of a timer that was running
\* or in a break: the sync effect issued a pause command.
C25_ResetAfterWorkPhase ==
  /\ ev = "resetTimer" /\ isWorking /\ currentPomodoro = 0 /\ ~isRunning
  /\ ~timerComplete /\ timeLeft = workMinutes * 60 /\ tickDue = Null
  /\ now >= DefaultWorkMinutes * 60 * MsPerSecond
  /\ \E t \in Tasks : t.op = "pause" /\ t.fn = "put"

\* C26: when the page becomes visible while the timer runs and is not
\* complete, timeLeft becomes the time to the stored deadline in seconds,
\* rounded up, and 0 when the deadline has passed: never negative, and
\* whatever timeLeft showed before.  Otherwise timeLeft is left alone.
C26_VisibleResync ==
  [][ ev' = "visibilityChange" =>
        /\ (isRunning /\ ~timerComplete /\ endTimeRef > now) =>
              /\ timeLeft' * MsPerSecond >= endTimeRef - now
              /\ (timeLeft' - 1) * MsPerSecond < endTimeRef - now
        /\ (isRunning /\ ~timerComplete /\ endTimeRef <= now) => timeLeft' = 0
        /\ ~(isRunning /\ ~timerComplete) => timeLeft' = timeLeft
        /\ timeLeft' >= 0
        /\ UNCHANGED << endTimeRef, isRunning, isWorking, currentPomodoro >> ]_vars

\* The deadline passed a minute ago when the page became visible.
C26_ClampedAtZero ==
  /\ ev = "visibilityChange" /\ isRunning /\ ~timerComplete
  /\ now = endTimeRef + 60 * MsPerSecond /\ timeLeft = 0

\* A step that changes a setting.
ConfigChange ==
  ev' \in {"workMinutesInput", "breakMinutesInput", "pomodorosInput", "setPreset"}

\* C27: a change of the settings rewrites timeLeft only when the timer is
\* not running and the changed duration is that of the current phase; in
\* every other case timeLeft is unchanged.  No change of the settings
\* touches the phase, currentPomodoro, the run flag or the deadline, and
\* the settings change only while the timer is not running.  The
\* duration that is not of the current phase is used when its phase is
\* entered.
C27_ConfigChangeFrame ==
  [][ /\ ConfigChange =>
            /\ ~isRunning
            /\ UNCHANGED << isWorking, currentPomodoro, isRunning, timerComplete,
                            endTimeRef, tickDue >>
            /\ ev' = "workMinutesInput" =>
                  timeLeft' = IF isWorking THEN workMinutes' * 60 ELSE timeLeft
            /\ ev' = "breakMinutesInput" =>
                  timeLeft' = IF isWorking THEN timeLeft ELSE breakMinutes' * 60
            /\ ev' = "pomodorosInput" => timeLeft' = timeLeft
            /\ ev' = "setPreset" =>
                  timeLeft' = IF isWorking THEN workMinutes' * 60
                                           ELSE breakMinutes' * 60
      /\ ~ConfigChange => UNCHANGED << workMinutes, breakMinutes, totalPomodoros >>
      /\ (Expiry /\ ~isWorking) => timeLeft' = workMinutes * 60
      /\ (Expiry /\ isWorking /\ ~timerComplete') => timeLeft' = breakMinutes * 60
    ]_vars

\* The work minutes are typed in a paused break: timeLeft stays the
\* time of the break.
C27_WorkTypedInPausedBreak ==
  /\ ev = "workMinutesInput" /\ ~isWorking /\ ~isRunning /\ ~timerComplete
  /\ currentPomodoro = 1 /\ workMinutes = 5
  /\ timeLeft = breakMinutes * 60 /\ timeLeft # workMinutes * 60

\* The step sends a play / pause request (cmd = "play" / "pause").
Issued(cmd) ==
  \E t \in BagToSet(tasks') :
    t.fn = "put" /\ t.op = cmd /\ CopiesIn(t, tasks') > CopiesIn(t, tasks)

\* C28: with a token and a stored access token that is not about to expire,
\* every step that changes (isWorking, isRunning) sends a play request, and
\* no pause request, when the new value is (work, running), and a pause
\* request, and no play request, for every other new value: so work to
\* break and work to complete send pause and break to work sends play.  The
\* phase transition is applied in the step of the expiry, and no response to
\* a request, success or failure, changes the state of the timer.
C28_CommandFollowsTimer ==
  [][ /\ ( /\ Truthy(token) /\ Truthy(token') /\ StoredTokenIsValid(Cur)
            /\ << isWorking', isRunning' >> # << isWorking, isRunning >> ) =>
              IF isWorking' /\ isRunning'
              THEN Issued("play") /\ ~Issued("pause")
              ELSE Issued("pause") /\ ~Issued("play")
      /\ (Expiry /\ isWorking) => (timerComplete' \/ ~isWorking')
      /\ (Expiry /\ ~isWorking) => isWorking'
      /\ ev' \in {"resourceResponse", "quietTimeout"} =>
            UNCHANGED << isWorking, isRunning, currentPomodoro, timerComplete,
                         timeLeft, endTimeRef, tickDue >> ]_vars

\* The break runs although a pause request of the transition into it
\* failed.
C28_BreakDespiteFailedPause ==
  /\ ev = "resourceResponse" /\ delivered.fn = "put" /\ ~delivered.ok
  /\ ~isWorking /\ isRunning /\ currentPomodoro = 1
  /\ timeLeft = breakMinutes * 60 /\ Truthy(tickDue)
  /\ endTimeRef = now + breakMinutes * 60 * MsPerSecond

\* A play / pause command is between its request and the end of its quiet
\* window: the request, its retry or the refresh before the retry is
\* pending, or the one-second timeout after the response has not fired.
CommandOpen ==
  \E t \in Tasks :
    \/ t.fn \in {"put", "putRetry", "quiet"}
    \/ t.fn = "refresh" /\ t.ret = "put"

\* C29: from the request of a play / pause command to the end of its quiet
\* window programmaticChangeRef stays set, for every command, also when the
\* windows of two commands overlap or a response is late; and no response
\* of the playback calls changes isRunning.
C29_GuardHeldThroughWindow ==
  /\ [](CommandOpen => programmaticChangeRef)
  /\ [][ev' \in {"resourceResponse", "quietTimeout", "pollInterval"} =>
          isRunning' = isRunning]_vars

\* The timeout of an earlier command cleared the flag while the request of
\* a later one is still unanswered.
C29_GuardClearedEarly ==
  /\ ev = "quietTimeout" /\ ~programmaticChangeRef
  /\ \E t \in Tasks : t.fn = "put"

\* The step delivers a failure to a resource call: a response with a
\* non-success status other than 401, or no response at all.
CallFailed ==
  /\ ev' = "resourceResponse"
  /\ delivered'.fn \in ResourceFns
  /\ ~delivered'.ok /\ delivered'.status # 401

\* C30: a failure of a resource call (getUserInfo, getPlaybackState, a play
\* / pause command; an HTTP error or a network failure; polls included) sets
\* the error text, sends no request of the same call again, leaves the
\* timer, localStorage and token unchanged and the playback poll armed; and
\* after a failed play / pause command programmaticChangeRef is cleared, at
\* once or by the timeout that is then pending.
C30_FailureFrame ==
  [][ CallFailed =>
        /\ error'.what # "none" /\ error'.status = delivered'.status
        /\ \A t \in BagToSet(tasks') :
              t.fn = delivered'.fn => CopiesIn(t, tasks') <= CopiesIn(t, tasks)
        /\ UNCHANGED << isWorking, isRunning, currentPomodoro, timerComplete,
                        timeLeft, endTimeRef, tickDue, workMinutes,
                        breakMinutes, totalPomodoros >>
        /\ UNCHANGED << storage, token, pollDue, refreshTimers >>
        /\ delivered'.fn \in {"put", "putRetry"} =>
              \/ ~programmaticChangeRef'
              \/ \E t \in BagToSet(tasks') : t.fn = "quiet" ]_vars

\* A pause command was refused with 500: no error text, the timeout that
\* clears the flag is pending, the poll is armed.
C30_RefusedCommandNoErrorText ==
  /\ ev = "resourceResponse" /\ delivered.fn = "put" /\ delivered.status = 500
  /\ error.what = "none" /\ programmaticChangeRef /\ Truthy(pollDue)
  /\ \E t \in Tasks : t.fn = "quiet" /\ t.op = "pause"

\* C31: a response that arrives after a logout does not repopulate what the
\* logout cleared.  While the component holds no token and localStorage no
\* access token, userInfo and playbackState are empty.
C31_ClearedStaysCleared ==
  (page = "app" /\ ~Truthy(token) /\ ~Truthy(storage.access_token)) =>
    (userInfo = "none" /\ playbackState = "none")

\* A playback request sent before the logout is answered after it, and
\* the snapshot is stored.
C31_SnapshotAfterLogout ==
  /\ ev = "resourceResponse" /\ delivered.fn = "getPlaybackState" /\ delivered.ok
  /\ page = "app" /\ ~Truthy(token) /\ storage = EmptyStorage
  /\ userInfo = "none" /\ playbackState # "none"

\* C32: the phase changes by the clock, not by the number of ticks.  A
\* tick before the deadline changes neither the phase nor currentPomodoro
\* nor the run flag nor the deadline; a tick at or after the deadline,
\* however late, makes one transition: the phase flips or the timer
\* completes, currentPomodoro rises by at most one, and the next phase
\* gets its whole duration from the time of the tick; and the phase flips
\* in no step other than such a tick, a reset or a restart.
C32_TransitionByClock ==
  [][ /\ (ev' = "tick" /\ now < endTimeRef) =>
            UNCHANGED << isWorking, currentPomodoro, isRunning, timerComplete,
                         endTimeRef >>
      /\ (ev' = "tick" /\ now >= endTimeRef) =>
            /\ (isWorking' # isWorking) # (timerComplete' /\ isWorking')
            /\ currentPomodoro' \in {currentPomodoro, currentPomodoro + 1}
            /\ ~timerComplete' =>
                  /\ isRunning'
                  /\ timeLeft' = (IF isWorking' THEN workMinutes ELSE breakMinutes) * 60
                  /\ endTimeRef' = now' + timeLeft' * MsPerSecond
      /\ (isWorking' # isWorking) =>
            \/ ev' = "tick" /\ now >= endTimeRef
            \/ ev' \in {"resetTimer", "toggleTimer"} /\ isWorking' ]_vars

\* A tick before the deadline of the first work phase.
C32_TickBeforeDeadline ==
  /\ ev = "tick" /\ isRunning /\ isWorking /\ currentPomodoro = 0
  /\ now > 0 /\ now < endTimeRef
  /\ timeLeft * MsPerSecond = endTimeRef - now

Characters(text) == {text[i] : i \in 1..Len(text)}

C34_NewestCredentialKept ==
  [][ (ev' = "tokenResponse" /\ delivered'.fn = "refresh" /\ delivered'.ok
       /\ Truthy(storage.access_token)) =>
        /\ storage'.access_token >= storage.access_token
        /\ storage'.refresh_token >= storage.refresh_token ]_vars

\* Both refreshes have settled and localStorage holds the tokens of the
\* first response issued, delivered last.
C34_OlderResponseStored ==
  /\ ev = "tokenResponse" /\ delivered.fn = "refresh" /\ delivered.ok
  /\ tokenRequests = 2 /\ Pending({"refresh", "getToken"}) = {}
  /\ delivered.access_token = 1 /\ delivered.refresh_token = 1
  /\ storage.access_token = 1 /\ storage.refresh_token = 1

\* A play / pause command has been called and has not been answered: it
\* awaits the refresh of getValidAccessToken, its request, or its retry.
InFlight(ts) ==
  {t \in BagToSet(ts) : /\ t.op \in {"play", "pause"}
                         /\ t.fn \in {"refresh", "put", "putRetry"}}

\* The step delivers the request of the command cmd to the resource server,
\* which accepts it.
Accepted(cmd) ==
  /\ ev' = "resourceResponse" /\ delivered'.fn \in {"put", "putRetry"}
  /\ delivered'.ok
  /\ \E t \in BagToSet(tasks) :
       /\ t.op = cmd /\ t.fn = delivered'.fn
       /\ CopiesIn(t, tasks') < CopiesIn(t, tasks)

\* C35: when the last of the commands in flight is accepted by the resource
\* server, it is play if and only if the timer is in the work phase and
\* running.
C35_LastCommandMatchesTimer ==
  [][ \A cmd \in {"play", "pause"} :
        (Accepted(cmd) /\ InFlight(tasks') = {}) =>
          ((cmd = "play") <=> (isWorking' /\ isRunning')) ]_vars

\* The timer runs in the work phase and no command is in flight, and the
\* command the resource server accepted last, after every play, is a pause.
C35_PausedWhileRunning ==
  /\ ev = "resourceResponse" /\ delivered.fn = "put" /\ delivered.ok
  /\ isRunning /\ isWorking /\ Truthy(token) /\ InFlight(tasks) = {}
  /\ \E t \in Tasks :
       /\ t.fn = "quiet" /\ t.op = "pause" /\ t.due = now + QuietWindow
       /\ \E u \in Tasks : u.fn = "quiet" /\ u.op = "play" /\ u.due < t.due

\* A return to the page with the credential of an earlier visit, before or
\* after that credential's access token has expired.
LoadTimes == {0, 2 * ClockStep}
RestoreInit ==
  \E st \in EarlierStorages, t \in LoadTimes : StartsAs(Mounted(st, Null, t, 0))

RestoreNext ==
  \/ HandleLogin
  \/ Navigate
  \/ Redirect
  \/ Reload
  \/ HandleLogout
  \/ TokenResponse
  \/ ResourceRespondsWith({200, 204, 401})

SpecRestore == RestoreInit /\ [][RestoreNext]_vars

\* localStorage holds an access token whose expiry is in the future.
HeldUnexpired(st, t) ==
  /\ Truthy(st.access_token) /\ Truthy(ParseInt(st.expires_at))
  /\ t < ParseInt(st.expires_at)

\* The state s is that of a page just loaded without a code, with the
\* localStorage s.storage: logged in with the stored token, or waiting for
\* the refresh of the stored refresh token, or logged out and idle.
LoadedWithoutCode(s) ==
  IF HeldUnexpired(s.storage, s.now)
  THEN /\ s.token = s.storage.access_token
       /\ \E t \in BagToSet(s.tasks) : t.fn = "getUserInfo" /\ t.op = "init"
  ELSE /\ ~Truthy(s.token) /\ s.refreshTimers = {}
       /\ \A t \in BagToSet(s.tasks) : t.fn \notin ResourceFns
       /\ IF Truthy(s.storage.refresh_token)
          THEN \E t \in BagToSet(s.tasks) : t.fn = "refresh" /\ t.ret = "init"
          ELSE s.tasks = EmptyBag

\* C36: a page load without a code logs in exactly when localStorage holds
\* an access token that has not expired, or a refresh token whose exchange
\* succeeds.  With an unexpired token the load sets it as token and requests
\* the profile; without one and with a refresh token it waits for the
\* exchange, logged out, and when the exchange succeeds token is the new
\* access token and the profile is requested, and when it fails token stays
\* null, no profile or playback request is sent and no refresh timer is armed;
\* with neither the page is logged out, sends nothing and arms nothing.
C36_SessionRestore ==
  /\ [](ev \in {"mount", "redirect"} => LoadedWithoutCode(Cur))
  /\ [][ /\ (ev' = "reload" /\ ~Truthy(urlCode)) =>
              storage' = storage /\ LoadedWithoutCode(Cur)'
         /\ (ev' = "tokenResponse" /\ delivered'.fn = "refresh"
              /\ delivered'.ret = "init") =>
              IF delivered'.ok
              THEN /\ token' = delivered'.access_token
                   /\ storage'.access_token = token'
                   /\ \E t \in BagToSet(tasks') : t.fn = "getUserInfo" /\ t.op = "init"
              ELSE /\ ~Truthy(token') /\ refreshTimers' = {} /\ storage' = storage
                   /\ \A t \in BagToSet(tasks') : t.fn \notin ResourceFns ]_vars

\* The page was reloaded with an expired access token and a refresh token,
\* and the exchange was refused: logged out, nothing sent, nothing armed.
C36_RestoreRefused ==
  /\ ev = "tokenResponse" /\ delivered.fn = "refresh" /\ delivered.ret = "init"
  /\ ~delivered.ok /\ ~Truthy(token) /\ tasks = EmptyBag /\ refreshTimers = {}
  /\ Truthy(storage.access_token) /\ ~HeldUnexpired(storage, now)

\* A step in which the timer keeps running inside one phase: it runs before
\* and after the step, and the step is no press of a timer button, no change
\* of a setting and no tick at or after the deadline.
RunsOn ==
  /\ isRunning /\ isRunning' /\ ~timerComplete /\ ~timerComplete'
  /\ ev' \notin {"toggleTimer", "resetTimer"} /\ ~ConfigChange
  /\ ~(ev' = "tick" /\ now >= endTimeRef)

\* C37: while the timer runs inside one phase no step changes the deadline
\* endTimeRef or the phase, and timeLeft never grows; every tick before the
\* deadline sets timeLeft to the remaining milliseconds rounded up to whole
\* seconds, whatever earlier ticks displayed.
C37_NoDrift ==
  [][ RunsOn =>
        /\ endTimeRef' = endTimeRef /\ isWorking' = isWorking
        /\ timeLeft' <= timeLeft
        /\ ev' = "tick" =>
              /\ timeLeft' * MsPerSecond >= endTimeRef - now
              /\ (timeLeft' - 1) * MsPerSecond < endTimeRef - now ]_vars

\* A tick half a second off the whole second: the display is rounded up.
C37_TickBetweenSeconds ==
  /\ ev = "tick" /\ isRunning /\ now < endTimeRef
  /\ (endTimeRef - now) % MsPerSecond # 0
  /\ timeLeft * MsPerSecond = endTimeRef - now + MsPerSecond \div 2

RefreshNext ==
  \/ AdvanceClock
  \/ RefreshTimeout
  \/ HandleLogin
  \/ Navigate
  \/ Redirect
  \/ Reload
  \/ HandleLogout
  \/ TokenResponse
  \/ ResourceRespondsWith({200, 401})

SpecRefresh == RestoreInit /\ [][RefreshNext]_vars

\* C39: at most one refresh timer is armed at any time; the armed one is the
\* one refreshTimeoutRef records, and it was armed for the expiry that is
\* stored, so it fires no earlier than RefreshLead before that expiry; a
\* refresh timer that fires is the recorded one.
C39_OneRefreshTimer ==
  /\ [](/\ Cardinality(refreshTimers) <= 1
        /\ \A t \in refreshTimers :
              /\ t.id = refreshTimeoutRef
              /\ t.due >= ParseInt(storage.expires_at) - RefreshLead)
  /\ [][ev' = "refreshTimeout" =>
          /\ \E t \in refreshTimers : t.id = refreshTimeoutRef /\ now >= t.due
          /\ refreshTimers' = {}]_vars

\* A refresh answered in a session that had a timer armed at page load: the
\* timer now armed is the one of the new credential.
C39_TimerReplaced ==
  /\ ev = "tokenResponse" /\ delivered.fn = "refresh" /\ delivered.ok
  /\ delivered.ret # "init" /\ Cardinality(refreshTimers) = 1
  /\ \A t \in refreshTimers : t.due > now

\* C40: within one load of the page the error text, once set, is never
\* cleared: every step other than a page load (the navigation of a login to
\* the authorization server, the return from it, a reload) leaves error
\* non-null when it was non-null; the navigation of a login leaves the page
\* and its error text behind.
C40_ErrorKeptWithinPage ==
  [][ /\ (error # NoError /\ ev' \notin {"navigate", "redirect", "reload"}) =>
            error' # NoError
      /\ ev' = "navigate" => error' = NoError ]_vars

\* C40 as stated: error, once set, stays non-null through every later call,
\* login, logout and timer reset.
C40_ErrorNeverCleared ==
  [][(error # NoError /\ ev' # "reload") => error' # NoError]_vars

\* A logout after a failed call: the error text is still there.
C40_ErrorAfterLogout ==
  ev = "handleLogout" /\ error # NoError /\ ~Truthy(token)

====
